---- MODULE Spec2Model ----
(***************************************************************************)
(* Model of the media-log ingestor's pipeline: batch partitioning          *)
(* (parser.js batchEntries), run-wide deduplication (cli.js runIngest),    *)
(* and the sequential, rate-limited delivery loop (cli.js runIngest with   *)
(* ingestor.js sendMediaLogBatch and saveFailedBatch).                     *)
(*                                                                         *)
(* Time is counted in milliseconds of setTimeout sleeps.  The timestamp    *)
(* field of a failure record (a wall-clock reading) is not modelled.       *)
(***************************************************************************)
EXTENDS Integers, Sequences, FiniteSets, TLC

(***************************************************************************)
(* Bounds of the model.                                                    *)
(***************************************************************************)
\* Largest number of collected entries in a delivery run.
MaxEntries == 4
\* Largest number of entries, and largest configured --batch-size, in the
\* partitioning runs (both above the hard limit of 10).
MaxPartEntries == 12
\* Turns of the loop of batchEntries that are followed beyond one turn per
\* entry.
MaxExtraTurns == 1
MaxConfigured == 12
\* Largest number of collected entries in a deduplication run.
MaxDedupEntries == 3

\* Largest number of entries of one log page, and of log pages requested.
MaxPageEvents == 2
MaxLogPages == 2
\* Largest number of fragments of a markdown document in the extraction runs.
MaxFragments == 3
\* Largest number of entries handed to the enricher in the enrichment runs.
MaxEnrichEntries == 2
\* Largest number of times the status job is found still running.
MaxPolls == 2
\* Largest number of resources in the exhaustively enumerated sites of the
\* pool runs.
MaxResources == 2

\* --batch-size values tried in delivery runs (11 is clamped to 10).
DeliveryBatchSizes == {2, 3, 11}

(***************************************************************************)
(* Program constants.                                                      *)
(***************************************************************************)
\* sendMediaLogBatch(..., maxRetries = 3)
MaxRetries == 3
\* Math.min(parseInt(batchSize, 10), 10)
BatchLimit == 10
\* setTimeout(resolve, 2000) before the first batch
SettleMs == 2000
\* await sleep(100) between batches
PauseMs == 100
\* 2 ** attempt * 1000
BackoffUnitMs == 1000

\* HTTP statuses the remote service answers with.
Statuses == {200, 403, 429, 500}

Min(a, b) == IF a < b THEN a ELSE b

RECURSIVE Flatten(_)
\* the concatenation of a sequence of sequences
Flatten(ss) == IF ss = <<>> THEN <<>> ELSE Head(ss) \o Flatten(Tail(ss))

(***************************************************************************)
(* parser.js: batchEntries                                                 *)
(***************************************************************************)
\* The value NaN of a JavaScript number (parseInt of a text without digits),
\* kept apart from every integer the runs compute with.
NaN == -1000

\* a + b and a < b of JavaScript numbers
Plus(a, b) == IF a = NaN \/ b = NaN THEN NaN ELSE a + b
Less(a, b) == a # NaN /\ b # NaN /\ a < b

\* The relative index of Array.prototype.slice: NaN is 0, a negative index
\* counts from the end, and the result is clamped to 0 .. length.
RelIndex(k, len) ==
    IF k = NaN THEN 0
    ELSE IF k < 0 THEN (IF len + k < 0 THEN 0 ELSE len + k)
    ELSE Min(k, len)

\* Array.prototype.slice(from, to) on a 1-based sequence: the elements at the
\* 0-based positions from the relative index of from up to, and without, that
\* of to.
Slice(s, from, to) ==
    IF RelIndex(from, Len(s)) < RelIndex(to, Len(s))
        THEN SubSeq(s, RelIndex(from, Len(s)) + 1, RelIndex(to, Len(s)))
        ELSE <<>>

SliceEnd_ShortByOne(i, size) == Plus(Plus(i, size), -1)
\* the end index given to slice: entries.slice(i, i + batchSize)
SliceEnd(i, size) == Plus(i, size)

RECURSIVE BatchLoop(_, _, _, _)
\* for (let i = 0; i < entries.length; i += batchSize) batches.push(slice)
BatchLoop(list, size, i, acc) ==
    IF i < Len(list)
        THEN BatchLoop(list, size, i + size,
                       Append(acc, Slice(list, i, SliceEnd(i, size))))
        ELSE acc

batchEntries(list, size) == BatchLoop(list, size, 0, <<>>)

EffectiveBatchSize_NoClamp(configured) == configured
\* Math.min(parseInt(batchSize, 10), 10); Math.min of NaN is NaN
EffectiveBatchSize(configured) ==
    IF configured = NaN THEN NaN ELSE Min(configured, BatchLimit)

(***************************************************************************)
(* parser.js: extractMediaHash.  A URL is a sequence of characters.        *)
(***************************************************************************)
MediaPrefix == <<"m", "e", "d", "i", "a", "_">>
\* the class [a-f0-9]
HexChars == {"a", "b", "c", "d", "e", "f",
             "0", "1", "2", "3", "4", "5", "6", "7", "8", "9"}

RECURSIVE HexRunEnd(_, _)
\* position of the last character of the longest run of [a-f0-9] that starts
\* at position p (p - 1 when url[p] is not in the class)
HexRunEnd(url, p) ==
    IF p <= Len(url) /\ url[p] \in HexChars THEN HexRunEnd(url, p + 1) ELSE p - 1

\* /media_([a-f0-9]+)\./ matches at position p: the literal, a non-empty run
\* of the class, then a dot (a shorter run cannot end before a dot, so only the
\* longest run is tried)
MatchAt(url, p) ==
    /\ p + Len(MediaPrefix) - 1 <= Len(url)
    /\ SubSeq(url, p, p + Len(MediaPrefix) - 1) = MediaPrefix
    /\ HexRunEnd(url, p + Len(MediaPrefix)) >= p + Len(MediaPrefix)
    /\ HexRunEnd(url, p + Len(MediaPrefix)) + 1 <= Len(url)
    /\ url[HexRunEnd(url, p + Len(MediaPrefix)) + 1] = "."

\* url.match(/media_([a-f0-9]+)\./): group 1 of the leftmost match, or null
\* (modelled as the empty sequence, which no match can yield)
extractMediaHash(url) ==
    LET starts == {p \in 1..Len(url) : MatchAt(url, p)}
    IN  IF starts = {} THEN <<>>
        ELSE LET p == CHOOSE q \in starts : \A r \in starts : q <= r
             IN  SubSeq(url, p + Len(MediaPrefix), HexRunEnd(url, p + Len(MediaPrefix)))

(***************************************************************************)
(* cli.js: runIngest, deduplication                                        *)
(***************************************************************************)
SeenKey_PerPage(entry, hash) == <<entry.contentSourcePath, hash>>
\* seenHashes.has(hash) / seenHashes.add(hash): one set for the whole run
SeenKey(entry, hash) == hash

HasHash_Always(hash) == TRUE
\* if (hash): null (no match) is falsy; a matched group is never empty
HasHash(hash) == hash # <<>>

Annotated_DropReuse(out, entry, operation) ==
    IF operation = "reuse" THEN out ELSE Append(out, [entry EXCEPT !.operation = operation])
\* return { ...entry, operation }, the next element of the mapped list
Annotated(out, entry, operation) == Append(out, [entry EXCEPT !.operation = operation])

RECURSIVE DedupLoop(_, _, _, _, _, _)
\* allEntries.map((entry) => { ... return { ...entry, operation }; })
DedupLoop(list, i, seen, out, ingest, reuse) ==
    IF i > Len(list)
        THEN [entries |-> out, seen |-> seen, ingest |-> ingest, reuse |-> reuse]
        ELSE LET entry == list[i]
                 hash == extractMediaHash(entry.path)
             IN  IF HasHash(hash)
                    THEN IF SeenKey(entry, hash) \in seen
                            THEN DedupLoop(list, i + 1, seen,
                                    Annotated(out, entry, "reuse"),
                                    ingest, reuse + 1)
                            ELSE DedupLoop(list, i + 1, seen \cup {SeenKey(entry, hash)},
                                    Annotated(out, entry, "ingest"),
                                    ingest + 1, reuse)
                    ELSE DedupLoop(list, i + 1, seen,
                            Annotated(out, entry, "ingest"),
                            ingest + 1, reuse)

(***************************************************************************)
(* State.                                                                  *)
(***************************************************************************)
VARIABLES
    allEntries,     \* cli.js allEntries: the collected records
    batchSize,      \* parseInt(options.batchSize, 10)
    dryRun,         \* options.dryRun
    batches,        \* cli.js batches
    pc,             \* position of runIngest
    index,          \* 0-based index of the for-of loop over batches.entries()
    attempt,        \* sendMediaLogBatch: the loop counter of the current call
    inflight,       \* number of submission requests issued and not yet settled
    lastOutcome,    \* status of the latest response (0: none, or the request rejected)
    error,          \* message of the error thrown to the delivery loop's catch
    batchesSent,    \* stats.batchesSent
    errors,         \* stats.errors
    failedFile,     \* content of failed-entries.json
    status,         \* per batch: Pending, RateLimited, Sent or Failed
    requests,       \* log of the submission requests issued, in order
    rateLimits,     \* per batch: number of responses with status 403 or 429
    batchWaits,     \* per batch: the backoff sleeps taken, in order (ms)
    settled,        \* number of 2 s settling pauses taken
    pauses,         \* number of 100 ms inter-request pauses taken
    gap,            \* ms slept since the latest request was issued
    saves,          \* log of the saveFailedBatch calls: the batch, the error caught,
                    \* the response and attempt that ended it, the file before and after
    seenHashes,     \* cli.js seenHashes
    ingestCount,    \* cli.js ingestCount
    reuseCount,     \* cli.js reuseCount
    markdown,       \* the markdown text of the page handed to the extractor
    pagePath,       \* resource.path of that page
    site,           \* the site context: org, repo, ref
    skipUserEnrichment, \* options.skipUserEnrichment
    fallbackUser,   \* options.user ("" when the flag is not given)
    userMap,        \* buildPreviewUserMap: userMap
    logUrl,         \* buildPreviewUserMap: url, the next log page to request
    logRequests,    \* the URLs of the log requests issued, in order
    lastPage,       \* data.entries of the latest log page read
    logEnd,         \* how the pagination loop ended ("" while it has not)
    lastIndex,      \* lastIndex of the four module-level expressions of parser.js
    token,          \* options.token || process.env.ADMIN_TOKEN, by what it is
    exitCode,       \* the code of process.exit, NoExit while the process runs
    remote,         \* the kinds of remote request issued so far
    polls,          \* what the requests of pollJobStatus observed, in order
    report,         \* the summary printed by generateReport(stats), or NoReport
    resources,      \* the resources of the status job: getJobDetails
    concurrency,    \* parseInt(options.concurrency, 10); 0 stands for NaN or < 1
    queue,          \* PQueue: the tasks waiting, as resource numbers, in order
    pendingCount,   \* PQueue: the number of tasks started and not yet settled
    task,           \* per resource: none, queued, fetching, settling or done
    settling,       \* tasks whose function has returned, in the order of their
                    \* completion: the microtasks that will call PQueue's next()
    handled,        \* per resource: content fetches issued, extractor calls,
                    \* records synthesized or extracted, failure caught
    stats           \* pagesDiscovered, markdownPagesProcessed,
                    \* standaloneMediaFound, mediaFromMarkdown, totalMediaFound

vars == <<allEntries, batchSize, dryRun, batches, pc, index, attempt, inflight,
          lastOutcome, error, batchesSent, errors, failedFile, status, requests,
          rateLimits, batchWaits, settled, pauses, gap, saves, seenHashes,
          ingestCount, reuseCount, markdown, pagePath, site, skipUserEnrichment,
          fallbackUser, userMap, logUrl, logRequests, lastPage, logEnd,
          lastIndex, token, exitCode, remote, polls, report, resources,
          concurrency, queue, pendingCount, task, settling, handled, stats>>

dedupVars == <<seenHashes, ingestCount, reuseCount>>

\* the arguments of extractMediaReferences
extractVars == <<markdown, pagePath, site>>

\* the options read by the enrichment step
enrichVars == <<skipUserEnrichment, fallbackUser>>

\* the locals of buildPreviewUserMap
logVars == <<userMap, logUrl, logRequests, lastPage, logEnd>>

\* the state of the module-level regular expressions
regexVars == <<lastIndex>>

\* the credential, the discovery requests and the end of the run
startVars == <<token, exitCode, remote, polls, report>>

\* the discovered resources and the worker pool of the content-fetch phase
poolVars == <<resources, concurrency, queue, pendingCount, task, settling,
              handled, stats>>

runVars == <<regexVars, startVars, poolVars>>

\* the state of the partition and of the delivery loop
deliveryVars == <<batchSize, dryRun, batches, index, attempt, inflight,
                  lastOutcome, error, batchesSent, errors, failedFile, status,
                  requests, rateLimits, batchWaits, settled, pauses, gap, saves>>

\* batch = batches[index] of the 0-based loop
Cur == index + 1

\* number of submission requests issued for batch i
SubmitCount(i) == Cardinality({k \in DOMAIN requests : requests[k].batch = i})

(***************************************************************************)
(* ingestor.js: saveFailedBatch                                            *)
(***************************************************************************)
\* failed-entries.json is absent, holds a JSON list of records, or holds
\* something JSON.parse or existing.push rejects.
AbsentFile == [kind |-> "absent", recs |-> <<>>]
CorruptFile == [kind |-> "corrupt", recs |-> <<>>]
ListFile(recs) == [kind |-> "list", recs |-> recs]

\* What the file system does during one call: all succeeds ("ok"); readFile
\* rejects with a code other than ENOENT, or writeFile rejects without having
\* touched the file ("rejected"); writeFile rejects after truncating the file
\* ("writePartial").
IoOutcomes == {"ok", "rejected", "writePartial"}

failedEntry(batch, err) == [error |-> err, entries |-> batch]

ExistingPlus_Twice(existing, rec) == Append(Append(existing, rec), rec)
\* existing.push(failedEntry)
ExistingPlus(existing, rec) == Append(existing, rec)

OnSaveError_Discard(file) == AbsentFile
\* catch (saveError) { console.error(...) }: nothing is written or removed
OnSaveError(file) == file

saveFailedBatch_Overwrite(file, batch, err, io) ==
    ListFile(<<failedEntry(batch, err)>>)
saveFailedBatch(file, batch, err, io) ==
    IF io = "rejected" THEN OnSaveError(file)     \* readFile or writeFile rejects
    ELSE IF file.kind = "corrupt" THEN OnSaveError(file) \* JSON.parse / push throws
    ELSE IF io = "writePartial" THEN CorruptFile
    ELSE ListFile(ExistingPlus(file.recs, failedEntry(batch, err)))

(***************************************************************************)
(* ingestor.js: sendMediaLogBatch                                          *)
(***************************************************************************)
\* response.ok
IsOk(o) == o \in 200..299

IsRateLimit_AnyError(o) == o \notin 200..299
\* response.status === 403 || response.status === 429
IsRateLimit(o) == o = 403 \/ o = 429

MayRetry_OneMore(a) == a <= MaxRetries
\* attempt < maxRetries
MayRetry(a) == a < MaxRetries

BackoffMs_Linear(a) == 2 * a * BackoffUnitMs
\* const backoffMs = 2 ** attempt * 1000
BackoffMs(a) == (2 ^ a) * BackoffUnitMs

FirstAttempt_Carry(prev) == prev
\* for (let attempt = 0; ...): a fresh counter in every call
FirstAttempt(prev) == 0

\* throw new Error(`Media log API error: ${response.status} - ${text}`); the
\* body text is not modelled (when response.text() rejects, its error is thrown
\* in place of this one and reaches the same catch).
ApiError(o) == <<"Media log API error", o>>
\* the error of a fetch that rejects
TransportError == <<"request failed">>

(***************************************************************************)
(* cli.js: runIngest, from the partition to the end of the delivery loop   *)
(***************************************************************************)
ShouldPause_AlsoDry(i, n, dry) == i < n - 1
\* if (index < batches.length - 1 && !dryRun)
ShouldPause(i, n, dry) == i < n - 1 /\ ~dry

BatchAt_Reversed(bs, i) == bs[Len(bs) - i]
\* for (const [index, batch] of batches.entries())
BatchAt(bs, i) == bs[i + 1]

AfterCatch_Abort(i, n) == [pc |-> "report", index |-> n]
\* the catch block ends and the loop goes on with the next batch
AfterCatch(i, n) == [pc |-> "loop", index |-> i + 1]

\* const batches = batchEntries(allEntries, Math.min(parseInt(batchSize, 10), 10))
Partition ==
    /\ pc = "partition"
    /\ batches' = batchEntries(allEntries, EffectiveBatchSize(batchSize))
    /\ status' = [i \in 1..Len(batches') |-> "Pending"]
    /\ batchWaits' = [i \in 1..Len(batches') |-> <<>>]
    /\ rateLimits' = [i \in 1..Len(batches') |-> 0]
    /\ pc' = "settle"
    /\ UNCHANGED <<allEntries, batchSize, dryRun, index, attempt, inflight,
                   lastOutcome, error, batchesSent, errors, failedFile, requests,
                   settled, pauses, gap, saves, dedupVars, extractVars, runVars, enrichVars, logVars>>

\* if (!dryRun) await new Promise((resolve) => setTimeout(resolve, 2000))
Settle ==
    /\ pc = "settle"
    /\ IF dryRun
          THEN UNCHANGED <<settled, gap>>
          ELSE settled' = settled + 1 /\ gap' = gap + SettleMs
    /\ index' = 0
    /\ pc' = "loop"
    /\ UNCHANGED <<allEntries, batchSize, dryRun, batches, attempt, inflight,
                   lastOutcome, error, batchesSent, errors, failedFile, status,
                   requests, batchWaits, pauses, saves, rateLimits,
                   dedupVars, extractVars, runVars, enrichVars, logVars>>

LoopEnds_BeforeLast(i, n) == i >= n - 1
\* for (const [index, batch] of batches.entries()): done after the last batch
LoopEnds(i, n) == i >= n

\* The loop takes the next batch and calls sendMediaLogBatch, which returns
\* the synthetic result at once in a dry run; after the last batch the loop ends.
LoopHead ==
    /\ pc = "loop"
    /\ IF LoopEnds(index, Len(batches))
          THEN pc' = "report" /\ UNCHANGED attempt
          ELSE /\ attempt' = FirstAttempt(attempt)
               /\ pc' = IF dryRun THEN "sent" ELSE "request"
    /\ UNCHANGED <<allEntries, batchSize, dryRun, batches, index, inflight,
                   lastOutcome, error, batchesSent, errors, failedFile, status,
                   requests, batchWaits, settled, pauses, gap, saves, rateLimits,
                   dedupVars, extractVars, runVars, enrichVars, logVars>>

\* const response = await fetch(url, { method: 'POST', body: {entries} })
Request ==
    /\ pc = "request"
    /\ inflight' = inflight + 1
    /\ requests' = Append(requests, [batch |-> Cur, attempt |-> attempt,
                                     entries |-> BatchAt(batches, index),
                                     gap |-> gap])
    /\ gap' = 0
    /\ status' = [status EXCEPT ![Cur] = "Pending"]
    /\ pc' = "await"
    /\ UNCHANGED <<allEntries, batchSize, dryRun, batches, index, attempt,
                   lastOutcome, error, batchesSent, errors, failedFile,
                   batchWaits, settled, pauses, saves, rateLimits,
                   dedupVars, extractVars, runVars, enrichVars, logVars>>

\* The request rejects (transport error): the error propagates out of
\* sendMediaLogBatch to the loop's catch.
RequestFails ==
    /\ pc = "await"
    /\ inflight' = inflight - 1
    /\ lastOutcome' = 0
    /\ error' = TransportError
    /\ pc' = "catch"
    /\ UNCHANGED <<allEntries, batchSize, dryRun, batches, index, attempt,
                   batchesSent, errors, failedFile, status, requests, batchWaits,
                   settled, pauses, gap, saves, rateLimits,
                   dedupVars, extractVars, runVars, enrichVars, logVars>>

\* The request is answered with status o.
Respond(o) ==
    /\ pc = "await"
    /\ inflight' = inflight - 1
    /\ lastOutcome' = o
    /\ rateLimits' = [rateLimits EXCEPT ![Cur] = IF o \in {403, 429} THEN @ + 1 ELSE @]
    /\ IF IsOk(o)
          THEN /\ pc' = "sent"
               /\ UNCHANGED <<error, status>>
          ELSE IF IsRateLimit(o) /\ MayRetry(attempt)
          THEN /\ pc' = "backoff"
               /\ status' = [status EXCEPT ![Cur] = "RateLimited"]
               /\ UNCHANGED error
          ELSE /\ error' = ApiError(o)
               /\ pc' = "catch"
               /\ UNCHANGED status
    /\ UNCHANGED <<allEntries, batchSize, dryRun, batches, index, attempt,
                   batchesSent, errors, failedFile, requests, batchWaits,
                   settled, pauses, gap, saves, dedupVars, extractVars, runVars, enrichVars, logVars>>

\* await sleep(backoffMs); continue
Backoff ==
    /\ pc = "backoff"
    /\ batchWaits' = [batchWaits EXCEPT ![Cur] = Append(@, BackoffMs(attempt))]
    /\ gap' = gap + BackoffMs(attempt)
    /\ attempt' = attempt + 1
    /\ pc' = "request"
    /\ UNCHANGED <<allEntries, batchSize, dryRun, batches, index, inflight,
                   lastOutcome, error, batchesSent, errors, failedFile, status,
                   requests, settled, pauses, saves, rateLimits,
                   dedupVars, extractVars, runVars, enrichVars, logVars>>

CountSent_Not(n) == n
\* stats.batchesSent += 1, after sendMediaLogBatch has returned
CountSent(n) == n + 1

AfterPause_None(g) == g
\* await sleep(100)
AfterPause(g) == g + PauseMs

\* stats.batchesSent += 1; if (index < batches.length - 1 && !dryRun) await sleep(100)
Sent ==
    /\ pc = "sent"
    /\ batchesSent' = CountSent(batchesSent)
    /\ status' = [status EXCEPT ![Cur] = "Sent"]
    /\ IF ShouldPause(index, Len(batches), dryRun)
          THEN pauses' = pauses + 1 /\ gap' = AfterPause(gap)
          ELSE UNCHANGED <<pauses, gap>>
    /\ index' = index + 1
    /\ pc' = "loop"
    /\ UNCHANGED <<allEntries, batchSize, dryRun, batches, attempt, inflight,
                   lastOutcome, error, errors, failedFile, requests, batchWaits,
                   settled, saves, rateLimits,
                   dedupVars, extractVars, runVars, enrichVars, logVars>>

\* catch (error) { stats.errors += 1; await saveFailedBatch(batch, error); }
Catch(io) ==
    /\ pc = "catch"
    /\ errors' = errors + 1
    /\ failedFile' = saveFailedBatch(failedFile, BatchAt(batches, index), error, io)
    /\ saves' = Append(saves, [batch |-> Cur, io |-> io, before |-> failedFile,
                               after |-> failedFile', err |-> error,
                               outcome |-> lastOutcome, attempt |-> attempt])
    /\ status' = [status EXCEPT ![Cur] = "Failed"]
    /\ index' = AfterCatch(index, Len(batches)).index
    /\ pc' = AfterCatch(index, Len(batches)).pc
    /\ UNCHANGED <<allEntries, batchSize, dryRun, batches, attempt, inflight,
                   lastOutcome, error, batchesSent, requests, batchWaits,
                   settled, pauses, gap, rateLimits,
                   dedupVars, extractVars, runVars, enrichVars, logVars>>

(***************************************************************************)
(* Strings that the program inspects are sequences of characters.          *)
(***************************************************************************)
\* s.startsWith(lit, p - 1), for a 1-based position p
StartsWithAt(s, p, lit) ==
    /\ p + Len(lit) - 1 <= Len(s)
    /\ SubSeq(s, p, p + Len(lit) - 1) = lit

\* s.includes(lit), lit not empty
Includes(s, lit) == \E p \in 1..Len(s) : StartsWithAt(s, p, lit)

\* String.prototype.endsWith
endsWith(s, lit) ==
    Len(s) >= Len(lit) /\ SubSeq(s, Len(s) - Len(lit) + 1, Len(s)) = lit

\* the characters a regular expression's . does not match
LineTerminators == {"\n", "\r"}

\* A JavaScript Map as a function; userMap.has(k), userMap.set(k, v)
EmptyMap == [k \in {} |-> ""]
MapHas(map, k) == k \in DOMAIN map
MapSet(map, k, v) == [x \in DOMAIN map \cup {k} |-> IF x = k THEN v ELSE map[x]]

(***************************************************************************)
(* ingestor.js: buildPreviewUserMap                                        *)
(***************************************************************************)
\* `${LOG_API}/${org}/${repo}/${ref}/?since=30d&limit=1000`
FirstLogUrl == "?since=30d&limit=1000"
\* values of data.links.next
NextLinks == {"next-1", "next-2"}

\* statuses of a log response that is not ok
LogErrorStatuses == {403, 500}

\* Paths of pages of the site.
PageA == <<"/", "a">>
PageB == <<"/", "b">>

\* Events of the log: a missing (or empty) path is the empty sequence, a
\* missing (or empty) user the empty string; both are falsy in the code.
LogEvents ==
    { [route |-> "preview", path |-> PageA, user |-> "alice"],
      [route |-> "preview", path |-> PageA, user |-> "bob"],
      [route |-> "preview", path |-> PageB, user |-> "bob"],
      [route |-> "live", path |-> PageA, user |-> "carol"],
      [route |-> "preview", path |-> <<>>, user |-> "carol"],
      [route |-> "preview", path |-> PageB, user |-> ""] }

\* data.entries of one page of the log
LogPages == UNION {[1..n -> LogEvents] : n \in 0..MaxPageEvents}

\* entry.route === 'preview' && entry.path && entry.user
IsPreviewEvent(e) == e.route = "preview" /\ e.path # <<>> /\ e.user # ""

SetIfAbsent_Overwrite(map, k, v) == MapSet(map, k, v)
\* if (!userMap.has(entry.path)) userMap.set(entry.path, entry.user)
SetIfAbsent(map, k, v) == IF MapHas(map, k) THEN map ELSE MapSet(map, k, v)

RECURSIVE FoldEntries(_, _, _)
\* for (const entry of entries) { ... }
FoldEntries(map, entries, i) ==
    IF i > Len(entries)
        THEN map
        ELSE FoldEntries(IF IsPreviewEvent(entries[i])
                            THEN SetIfAbsent(map, entries[i].path, entries[i].user)
                            ELSE map,
                         entries, i + 1)

AfterLogFailure_Reset(map) == EmptyMap
\* break, or the catch block, followed by: return userMap
AfterLogFailure(map) == map

\* if (!dryRun && !skipUserEnrichment): enrichEntriesWithUser is called and
\* buildPreviewUserMap sets up its locals
StartEnrichment ==
    /\ pc = "enrich"
    /\ ~dryRun /\ ~skipUserEnrichment
    /\ userMap' = EmptyMap
    /\ logUrl' = FirstLogUrl
    /\ logRequests' = <<>>
    /\ lastPage' = <<>>
    /\ logEnd' = ""
    /\ pc' = "logFetch"
    /\ UNCHANGED <<allEntries, deliveryVars, dedupVars, extractVars, runVars, enrichVars>>

\* else: enrichment is skipped and allEntries goes to the partition as it is
SkipEnrichment ==
    /\ pc = "enrich"
    /\ dryRun \/ skipUserEnrichment
    /\ pc' = "partition"
    /\ UNCHANGED <<allEntries, deliveryVars, dedupVars, extractVars, runVars, enrichVars,
                   logVars>>

\* while (hasMore) { const response = await fetch(url, ...) }
LogRequest ==
    /\ pc = "logFetch"
    /\ logRequests' = Append(logRequests, logUrl)
    /\ pc' = "logAwait"
    /\ UNCHANGED <<allEntries, deliveryVars, dedupVars, extractVars, runVars, enrichVars,
                   userMap, logUrl, lastPage, logEnd>>

NextUrl_Same(url, next) == url
\* if (data.links?.next) url = data.links.next
NextUrl(url, next) == next

\* The response is ok and its body parses: the page's entries are folded into
\* the map; with a next link the loop goes on, without one it ends.  (The
\* log is finite: the page answering request number MaxLogPages is the last.)
LogPage(entries, next) ==
    /\ pc = "logAwait"
    /\ next # "" => Len(logRequests) < MaxLogPages
    /\ userMap' = FoldEntries(userMap, entries, 1)
    /\ lastPage' = entries
    /\ IF next # ""
          THEN logUrl' = NextUrl(logUrl, next) /\ pc' = "logFetch" /\ UNCHANGED logEnd
          ELSE logEnd' = "noNext" /\ pc' = "logDone" /\ UNCHANGED logUrl
    /\ UNCHANGED <<allEntries, deliveryVars, dedupVars, extractVars, runVars, enrichVars,
                   logRequests>>

\* if (!response.ok) { ...; break; }  (in verbose mode response.text() may
\* reject inside this branch: the catch block then ends the loop the same way)
LogNotOk(o) ==
    /\ pc = "logAwait"
    /\ userMap' = AfterLogFailure(userMap)
    /\ logEnd' = IF o = 403 THEN "forbidden" ELSE "notOk"
    /\ pc' = "logDone"
    /\ UNCHANGED <<allEntries, deliveryVars, dedupVars, extractVars, runVars, enrichVars,
                   logUrl, logRequests, lastPage>>

\* fetch rejects, or response.json() rejects: catch (error) { log only }
LogThrows(how) ==
    /\ pc = "logAwait"
    /\ userMap' = AfterLogFailure(userMap)
    /\ logEnd' = how
    /\ pc' = "logDone"
    /\ UNCHANGED <<allEntries, deliveryVars, dedupVars, extractVars, runVars, enrichVars,
                   logUrl, logRequests, lastPage>>

(***************************************************************************)
(* ingestor.js: enrichEntriesWithUser, the map over the entries            *)
(***************************************************************************)
AemPage == <<".", "a", "e", "m", ".", "p", "a", "g", "e">>

\* /\.aem\.page(\/.*?)$/ matches at position p: the literal, a slash, and
\* then only characters that . matches up to the end of the string
SitePathAt(url, p) ==
    /\ StartsWithAt(url, p, AemPage \o <<"/">>)
    /\ \A q \in (p + Len(AemPage))..Len(url) : url[q] \notin LineTerminators

SitePath_Last(url) ==
    LET starts == {p \in 1..Len(url) : SitePathAt(url, p)}
    IN  IF starts = {} THEN <<>>
        ELSE LET p == CHOOSE q \in starts : \A r \in starts : q >= r
             IN  SubSeq(url, p + Len(AemPage), Len(url))
\* entry.sourcePath.match(/\.aem\.page(\/.*?)$/): group 1 of the leftmost
\* match, or null (the empty sequence; the group always starts with a slash)
SitePath(url) ==
    LET starts == {p \in 1..Len(url) : SitePathAt(url, p)}
    IN  IF starts = {} THEN <<>>
        ELSE LET p == CHOOSE q \in starts : \A r \in starts : q <= r
             IN  SubSeq(url, p + Len(AemPage), Len(url))

\* the property the enricher reads: entry.sourcePath
SourceField == "sourcePath"

\* if (entry.sourcePath): the property is present and not the empty string
HasSourcePath(entry) == SourceField \in DOMAIN entry /\ entry[SourceField] # <<>>

\* enriched.user = u, on the copy { ...entry }
WithUser(entry, u) ==
    [f \in DOMAIN entry \cup {"user"} |-> IF f = "user" THEN u ELSE entry[f]]

\* else if (fallbackUser) enriched.user = fallbackUser; else noUser += 1
OrFallback(entry, fallback) ==
    IF fallback # "" THEN WithUser(entry, fallback) ELSE entry

LookupUser_FallbackFirst(entry, map, k, fallback) ==
    IF fallback # "" THEN WithUser(entry, fallback)
    ELSE IF MapHas(map, k) /\ map[k] # "" THEN WithUser(entry, map[k]) ELSE entry
\* const user = previewUserMap.get(sourcePath); if (user) enriched.user = user;
\* else the fallback
LookupUser(entry, map, k, fallback) ==
    IF MapHas(map, k) /\ map[k] # ""
        THEN WithUser(entry, map[k])
        ELSE OrFallback(entry, fallback)

\* the callback of entries.map((entry, index) => { ... return enriched; })
enriched(entry, map, fallback) ==
    IF HasSourcePath(entry)
        THEN IF SitePath(entry[SourceField]) # <<>>
                THEN LookupUser(entry, map, SitePath(entry[SourceField]), fallback)
                ELSE OrFallback(entry, fallback)
        ELSE OrFallback(entry, fallback)

\* const enrichedEntries = entries.map(...); back in runIngest:
\* allEntries.length = 0; allEntries.push(...enrichedEntries).  The locals of
\* buildPreviewUserMap are gone when enrichEntriesWithUser has returned.
EnrichEntries ==
    /\ pc = "logDone"
    /\ allEntries' = [i \in DOMAIN allEntries |->
                         enriched(allEntries[i], userMap, fallbackUser)]
    /\ userMap' = EmptyMap
    /\ logUrl' = ""
    /\ logRequests' = <<>>
    /\ lastPage' = <<>>
    /\ logEnd' = ""
    /\ pc' = "partition"
    /\ UNCHANGED <<deliveryVars, dedupVars, extractVars, runVars, enrichVars>>

\* No page is being extracted.
NoExtraction ==
    /\ markdown = <<>>
    /\ pagePath = <<>>
    /\ site = [org |-> <<"o">>, repo |-> <<"r">>, ref |-> <<"m", "a", "i", "n">>]

\* Enrichment is switched off and buildPreviewUserMap is not running.
NoEnrichment ==
    /\ skipUserEnrichment = TRUE
    /\ fallbackUser = ""
    /\ userMap = EmptyMap
    /\ logUrl = ""
    /\ logRequests = <<>>
    /\ lastPage = <<>>
    /\ logEnd = ""

(***************************************************************************)
(* parser.js: the regular expressions of the extractor, as matchers over   *)
(* sequences of characters.  Every quantified class below is followed in   *)
(* its expression by a character outside the class (or by an anchor), so   *)
(* the only match of a run is the longest one.                             *)
(***************************************************************************)
\* the class \s
Whitespace == {" ", "\t", "\n", "\r"}
\* the class \d
Digits == {"0", "1", "2", "3", "4", "5", "6", "7", "8", "9"}

\* the first position q >= p with s[q] in stop, or Len(s) + 1: the end of the
\* longest run of a negated class [^stop] that starts at p
RunNot(s, p, stop) ==
    LET ends == {q \in p..Len(s) : s[q] \in stop}
    IN  IF ends = {} THEN Len(s) + 1
        ELSE CHOOSE q \in ends : \A r \in ends : q <= r

\* the first position q >= p with s[q] not in class, or Len(s) + 1
RunIn(s, p, class) ==
    LET ends == {q \in p..Len(s) : s[q] \notin class}
    IN  IF ends = {} THEN Len(s) + 1
        ELSE CHOOSE q \in ends : \A r \in ends : q <= r

\* s[p] = c, false beyond the end of s
CharAt(s, p, c) == p >= 1 /\ p <= Len(s) /\ s[p] = c

\* String.prototype.trim
Trim(s) ==
    LET keep == {q \in 1..Len(s) : s[q] \notin Whitespace}
    IN  IF keep = {} THEN <<>>
        ELSE SubSeq(s, CHOOSE q \in keep : \A r \in keep : q <= r,
                       CHOOSE q \in keep : \A r \in keep : q >= r)

UpperCase == <<"A", "B", "C", "D", "E", "F", "G", "H", "I", "J", "K", "L", "M",
               "N", "O", "P", "Q", "R", "S", "T", "U", "V", "W", "X", "Y", "Z">>
LowerCase == <<"a", "b", "c", "d", "e", "f", "g", "h", "i", "j", "k", "l", "m",
               "n", "o", "p", "q", "r", "s", "t", "u", "v", "w", "x", "y", "z">>

\* the lower-case letter of every upper-case letter
LowerOf ==
    [c \in {UpperCase[k] : k \in DOMAIN UpperCase} |->
        LowerCase[CHOOSE k \in DOMAIN UpperCase : UpperCase[k] = c]]

\* String.prototype.toLowerCase
toLowerCase(s) ==
    [i \in 1..Len(s) |-> IF s[i] \in DOMAIN LowerOf THEN LowerOf[s[i]] ELSE s[i]]

NoMatch == [ok |-> FALSE]

\* (?:\s+"([^"]+)")?  tried at position p, the position after the url: the
\* title and the position after the closing quote, or no match
TitleAt(s, p) ==
    LET w == RunIn(s, p, Whitespace)
        t == RunNot(s, w + 1, {"\""})
    IN  IF w > p /\ CharAt(s, w, "\"") /\ t > w + 1 /\ t <= Len(s)
            THEN [ok |-> TRUE, title |-> SubSeq(s, w + 1, t - 1), next |-> t + 1]
            ELSE NoMatch

\* MARKDOWN_LINK_REGEX  /\[([^\]]*)\]\(([^\s"')]+)(?:\s+"([^"]+)")?\)/
\* matched at position p.  An absent title (undefined) is the empty sequence;
\* a title that is present is never empty.
LinkAt(s, p) ==
    LET a == RunNot(s, p + 1, {"]"})
        u == RunNot(s, a + 2, Whitespace \cup {"\"", "'", ")"})
        t == TitleAt(s, u)
    IN  IF ~(CharAt(s, p, "[") /\ CharAt(s, a, "]") /\ CharAt(s, a + 1, "(") /\ u > a + 2)
            THEN NoMatch
        ELSE IF CharAt(s, u, ")")
            THEN [ok |-> TRUE, at |-> p, text |-> SubSeq(s, p + 1, a - 1),
                  url |-> SubSeq(s, a + 2, u - 1), title |-> <<>>, end |-> u]
        ELSE IF t.ok /\ CharAt(s, t.next, ")")
            THEN [ok |-> TRUE, at |-> p, text |-> SubSeq(s, p + 1, a - 1),
                  url |-> SubSeq(s, a + 2, u - 1), title |-> t.title, end |-> t.next]
        ELSE NoMatch

\* MARKDOWN_IMAGE_INLINE_REGEX: the same expression behind an exclamation mark
InlineImageAt(s, p) ==
    IF CharAt(s, p, "!") /\ LinkAt(s, p + 1).ok
        THEN [LinkAt(s, p + 1) EXCEPT !.at = p]
        ELSE NoMatch

\* MARKDOWN_IMAGE_REFERENCE_REGEX  /!\[([^\]]*)\]\[([^\]]+)\]/
RefImageAt(s, p) ==
    LET a == RunNot(s, p + 2, {"]"})
        i == RunNot(s, a + 2, {"]"})
    IN  IF /\ CharAt(s, p, "!") /\ CharAt(s, p + 1, "[") /\ CharAt(s, a, "]")
           /\ CharAt(s, a + 1, "[") /\ i > a + 2 /\ i <= Len(s)
            THEN [ok |-> TRUE, at |-> p, text |-> SubSeq(s, p + 2, a - 1),
                  id |-> SubSeq(s, a + 2, i - 1), end |-> i]
            ELSE NoMatch

\* ^ and $ under the m flag
LineStart(s, p) == p = 1 \/ s[p - 1] \in LineTerminators
LineEnd(s, p) == p = Len(s) + 1 \/ (p <= Len(s) /\ s[p] \in LineTerminators)

DefUrlGroup_Star(from, to) == to >= from
\* ([^\s"]+): the url of a definition has at least one character
DefUrlGroup(from, to) == to > from

\* MARKDOWN_REFERENCE_DEFINITION_REGEX
\* /^\[([^\]]+)\]:\s*([^\s"]+)(?:\s+"([^"]+)")?$/gm matched at position p: with
\* the title group when the line ends behind it, else without it
RefDefAt(s, p) ==
    LET i == RunNot(s, p + 1, {"]"})
        u0 == RunIn(s, i + 2, Whitespace)
        u == RunNot(s, u0, Whitespace \cup {"\""})
        t == TitleAt(s, u)
    IN  IF ~(/\ p <= Len(s) /\ LineStart(s, p) /\ CharAt(s, p, "[") /\ i > p + 1
             /\ CharAt(s, i, "]") /\ CharAt(s, i + 1, ":") /\ DefUrlGroup(u0, u))
            THEN NoMatch
        ELSE IF t.ok /\ LineEnd(s, t.next)
            THEN [ok |-> TRUE, at |-> p, id |-> SubSeq(s, p + 1, i - 1),
                  url |-> SubSeq(s, u0, u - 1), title |-> t.title, end |-> t.next - 1]
        ELSE IF LineEnd(s, u)
            THEN [ok |-> TRUE, at |-> p, id |-> SubSeq(s, p + 1, i - 1),
                  url |-> SubSeq(s, u0, u - 1), title |-> <<>>, end |-> u - 1]
        ELSE NoMatch

\* regex.exec in a loop under the g flag: the leftmost match at or after
\* `from`, then the search resumes behind that match
RECURSIVE ScanRefDefs(_, _)
ScanRefDefs(s, from) ==
    LET starts == {p \in from..Len(s) : RefDefAt(s, p).ok}
    IN  IF starts = {} THEN <<>>
        ELSE LET m == RefDefAt(s, CHOOSE p \in starts : \A r \in starts : p <= r)
             IN  <<m>> \o ScanRefDefs(s, m.end + 1)

RECURSIVE ScanInlineImages(_, _)
ScanInlineImages(s, from) ==
    LET starts == {p \in from..Len(s) : InlineImageAt(s, p).ok}
    IN  IF starts = {} THEN <<>>
        ELSE LET m == InlineImageAt(s, CHOOSE p \in starts : \A r \in starts : p <= r)
             IN  <<m>> \o ScanInlineImages(s, m.end + 1)

RECURSIVE ScanRefImages(_, _)
ScanRefImages(s, from) ==
    LET starts == {p \in from..Len(s) : RefImageAt(s, p).ok}
    IN  IF starts = {} THEN <<>>
        ELSE LET m == RefImageAt(s, CHOOSE p \in starts : \A r \in starts : p <= r)
             IN  <<m>> \o ScanRefImages(s, m.end + 1)

RECURSIVE ScanLinks(_, _)
ScanLinks(s, from) ==
    LET starts == {p \in from..Len(s) : LinkAt(s, p).ok}
    IN  IF starts = {} THEN <<>>
        ELSE LET m == LinkAt(s, CHOOSE p \in starts : \A r \in starts : p <= r)
             IN  <<m>> \o ScanLinks(s, m.end + 1)

(***************************************************************************)
(* parser.js: getContentType, extractDimensions, isNonImageMedia           *)
(***************************************************************************)
ExtJpg == <<".", "j", "p", "g">>
ExtJpeg == <<".", "j", "p", "e", "g">>
ExtPng == <<".", "p", "n", "g">>
ExtGif == <<".", "g", "i", "f">>
ExtWebp == <<".", "w", "e", "b", "p">>
ExtAvif == <<".", "a", "v", "i", "f">>
ExtMp4 == <<".", "m", "p", "4">>
ExtMov == <<".", "m", "o", "v">>
ExtWebm == <<".", "w", "e", "b", "m">>
ExtAvi == <<".", "a", "v", "i">>
ExtM4v == <<".", "m", "4", "v">>
ExtMkv == <<".", "m", "k", "v">>
ExtPdf == <<".", "p", "d", "f">>
ExtDoc == <<".", "d", "o", "c">>
ExtDocx == <<".", "d", "o", "c", "x">>
ExtXls == <<".", "x", "l", "s">>
ExtXlsx == <<".", "x", "l", "s", "x">>
ExtPpt == <<".", "p", "p", "t">>
ExtPptx == <<".", "p", "p", "t", "x">>
ExtTxt == <<".", "t", "x", "t">>

VIDEO_EXTENSIONS == {ExtMp4, ExtMov, ExtWebm, ExtAvi, ExtM4v, ExtMkv}
DOC_EXTENSIONS == {ExtPdf, ExtDoc, ExtDocx, ExtXls, ExtXlsx, ExtPpt, ExtPptx, ExtTxt}

\* the keys of CONTENT_TYPE_MAP in their order, with their values
CONTENT_TYPE_MAP ==
    << <<ExtJpg, "image/jpeg">>, <<ExtJpeg, "image/jpeg">>, <<ExtPng, "image/png">>,
       <<ExtGif, "image/gif">>, <<ExtWebp, "image/webp">>, <<ExtAvif, "image/avif">>,
       <<ExtMp4, "video/mp4">>, <<ExtMov, "video/quicktime">>,
       <<ExtWebm, "video/webm">>, <<ExtAvi, "video/x-msvideo">>,
       <<ExtM4v, "video/x-m4v">>, <<ExtMkv, "video/x-matroska">> >>

\* Object.keys(CONTENT_TYPE_MAP).find((e) => lowerUrl.includes(e)), mapped to
\* its value; null is the empty string
getContentType(url) ==
    LET hits == {k \in DOMAIN CONTENT_TYPE_MAP :
                    Includes(toLowerCase(url), CONTENT_TYPE_MAP[k][1])}
    IN  IF hits = {} THEN ""
        ELSE CONTENT_TYPE_MAP[CHOOSE k \in hits : \A r \in hits : k <= r][2]

WidthKey == <<"#", "w", "i", "d", "t", "h", "=">>
HeightKey == <<"&", "h", "e", "i", "g", "h", "t", "=">>

\* /#width=(\d+)&height=(\d+)/ matches at position p
DimensionsAt(url, p) ==
    LET w == RunIn(url, p + Len(WidthKey), Digits)
        h == RunIn(url, w + Len(HeightKey), Digits)
    IN  IF /\ StartsWithAt(url, p, WidthKey) /\ w > p + Len(WidthKey)
           /\ StartsWithAt(url, w, HeightKey) /\ h > w + Len(HeightKey)
            THEN [ok |-> TRUE, width |-> SubSeq(url, p + Len(WidthKey), w - 1),
                  height |-> SubSeq(url, w + Len(HeightKey), h - 1)]
            ELSE NoMatch

\* extractDimensions: the groups of the leftmost match, or null (NoMatch)
extractDimensions(url) ==
    LET starts == {p \in 1..Len(url) : DimensionsAt(url, p).ok}
    IN  IF starts = {} THEN NoMatch
        ELSE DimensionsAt(url, CHOOSE p \in starts : \A r \in starts : p <= r)

ExtSvg == <<".", "s", "v", "g">>
ExtIco == <<".", "i", "c", "o">>
\* the image family
IMAGE_EXTENSIONS == {ExtJpg, ExtJpeg, ExtPng, ExtGif, ExtWebp, ExtSvg, ExtIco, ExtAvif}

\* VIDEO_EXTENSIONS.some((ext) => lowerUrl.includes(ext))
\*   || DOC_EXTENSIONS.some((ext) => lowerUrl.includes(ext))
isNonImageMedia(url) ==
    \/ \E ext \in VIDEO_EXTENSIONS : Includes(toLowerCase(url), ext)
    \/ \E ext \in DOC_EXTENSIONS : Includes(toLowerCase(url), ext)

(***************************************************************************)
(* parser.js: extractMediaReferences                                       *)
(***************************************************************************)
Https == <<"h", "t", "t", "p", "s", ":", "/", "/">>
DashDash == <<"-", "-">>

sourceUrl_Relative(ctx, sourcePath) == sourcePath
\* const sourceUrl = `https://${ref}--${repo}--${org}.aem.page${sourcePath}`
sourceUrl(ctx, sourcePath) ==
    Https \o ctx.ref \o DashDash \o ctx.repo \o DashDash \o ctx.org \o AemPage
          \o sourcePath

\* references.set(refId.toLowerCase(), { url: url.trim(), title })
RefsSet(refs, id, def) == MapSet(refs, id, def)

RECURSIVE References(_, _, _)
\* the loop over the matches of the definition expression
References(defs, i, refs) ==
    IF i > Len(defs) THEN refs
    ELSE References(defs, i + 1,
                    RefsSet(refs, toLowerCase(defs[i].id),
                            [url |-> Trim(defs[i].url), title |-> defs[i].title]))

FinalAlt_BracketFirst(title, altText) == IF altText # <<>> THEN altText ELSE title
\* const finalAlt = title || altText
FinalAlt(title, altText) == IF title # <<>> THEN title ELSE altText

\* The calls of addMedia(path, altText) made for the inline images, in order:
\* one for every match with if (url && url.trim())
InlineCallsOf(matches) ==
    LET ms == SelectSeq(matches, LAMBDA m : Trim(m.url) # <<>>)
    IN  [k \in DOMAIN ms |->
            [path |-> ms[k].url, altText |-> FinalAlt(ms[k].title, ms[k].text),
             from |-> "inline", at |-> ms[k].at]]

InlineCalls(s) == InlineCallsOf(ScanInlineImages(s, 1))

\* references.get(refId.toLowerCase())
RefId(id) == toLowerCase(id)

RECURSIVE RefCallsFrom(_, _, _)
\* The calls made for the reference-style images whose id resolves.
RefCallsFrom(ms, k, refs) ==
    IF k > Len(ms) THEN <<>>
    ELSE (IF MapHas(refs, RefId(ms[k].id))
             THEN << [path |-> refs[RefId(ms[k].id)].url,
                      altText |-> FinalAlt(refs[RefId(ms[k].id)].title, ms[k].text),
                      from |-> "reference", at |-> ms[k].at] >>
             ELSE <<>>)
         \o RefCallsFrom(ms, k + 1, refs)

RefCalls(s) ==
    RefCallsFrom(ScanRefImages(s, 1), 1, References(ScanRefDefs(s, 1), 1, EmptyMap))

RECURSIVE LinkCallsFrom(_, _)
\* The calls made for the plain links: addMedia(url), altText = ''
LinkCallsFrom(ms, k) ==
    IF k > Len(ms) THEN <<>>
    ELSE (IF isNonImageMedia(ms[k].url)
             THEN << [path |-> ms[k].url, altText |-> <<>>,
                      from |-> "link", at |-> ms[k].at] >>
             ELSE <<>>)
         \o LinkCallsFrom(ms, k + 1)

LinkCalls(s) == LinkCallsFrom(ScanLinks(s, 1), 1)

\* inline images, then reference-style images, then plain links
CallOrder(s) == InlineCalls(s) \o RefCalls(s) \o LinkCalls(s)

\* The optional properties of an entry.
WithField(entry, name, value) ==
    [f \in DOMAIN entry \cup {name} |-> IF f = name THEN value ELSE entry[f]]

\* The entry addMedia builds for a path it has not seen.
MediaEntry(ctx, page, path, altText) ==
    LET base == [owner |-> ctx.org, repo |-> ctx.repo, operation |-> "ingest",
                 path |-> path, contentSourcePath |-> sourceUrl(ctx, page),
                 contentSourceType |-> "markup"]
        typed == IF getContentType(path) # ""
                    THEN WithField(base, "contentType", getContentType(path))
                    ELSE base
        sized == IF extractDimensions(path).ok
                    THEN WithField(WithField(typed, "width", extractDimensions(path).width),
                                   "height", extractDimensions(path).height)
                    ELSE typed
    IN  IF Trim(altText) # <<>> THEN WithField(sized, "alt", Trim(altText)) ELSE sized

Seen_Never(seen, path) == FALSE
\* if (seen.has(path)) return
Seen(seen, path) == path \in seen

RECURSIVE addMedia(_, _, _, _, _, _)
\* addMedia applied to the calls from number k on: seen and mediaRefs grow
addMedia(ctx, page, calls, k, seen, mediaRefs) ==
    IF k > Len(calls) THEN mediaRefs
    ELSE IF Seen(seen, calls[k].path)
        THEN addMedia(ctx, page, calls, k + 1, seen, mediaRefs)
        ELSE addMedia(ctx, page, calls, k + 1, seen \cup {calls[k].path},
                      Append(mediaRefs,
                             MediaEntry(ctx, page, calls[k].path, calls[k].altText)))

extractMediaReferences(md, sourcePath, ctx) ==
    addMedia(ctx, sourcePath, CallOrder(md), 1, {}, <<>>)

(***************************************************************************)
(* parser.js: the four expressions are module-level objects with the g     *)
(* flag, so each keeps its lastIndex from one call of the extractor to the *)
(* next.  exec searches from lastIndex, leaves lastIndex behind the match  *)
(* it returns, and sets it to 0 when it returns null.                      *)
(***************************************************************************)
FreshIndex == [def |-> 0, inline |-> 0, ref |-> 0, link |-> 0]

WhileExec_FirstOnly(ms) ==
    IF ms = <<>> THEN [matches |-> <<>>, lastIndex |-> 0]
    ELSE [matches |-> <<ms[1]>>, lastIndex |-> ms[1].end]
\* while ((match = REGEX.exec(markdown)) !== null) { ... }: the body runs for
\* every match in turn, and the exec that returns null resets lastIndex
WhileExec(ms) == [matches |-> ms, lastIndex |-> 0]

\* REGEX.lastIndex = 0 before the loops of the inline images, of the
\* reference-style images and of the links (not before the definitions)
ResetIndex(li) == 0

\* One call of the extractor with the expressions as the calls before it left
\* them: the entries returned and the expressions' lastIndex afterwards.
extractWith(md, sourcePath, ctx, li) ==
    CHOOSE result \in
        { [entries |->
              addMedia(ctx, sourcePath,
                       InlineCallsOf(inlines.matches)
                         \o RefCallsFrom(refs.matches, 1,
                                         References(defs.matches, 1, EmptyMap))
                         \o LinkCallsFrom(links.matches, 1),
                       1, {}, <<>>),
           lastIndex |-> [def |-> defs.lastIndex, inline |-> inlines.lastIndex,
                          ref |-> refs.lastIndex, link |-> links.lastIndex]] :
            defs \in {WhileExec(ScanRefDefs(md, li.def + 1))},
            inlines \in {WhileExec(ScanInlineImages(md, ResetIndex(li.inline) + 1))},
            refs \in {WhileExec(ScanRefImages(md, ResetIndex(li.ref) + 1))},
            links \in {WhileExec(ScanLinks(md, ResetIndex(li.link) + 1))} } : TRUE

\* const entries = extractMediaReferences(markdown, resource.path, org, repo, ref);
\* if (entries.length > 0) allEntries.push(...entries); and, with the queue
\* drained: if (allEntries.length === 0) return ("No media found")
ExtractPage ==
    /\ pc = "extract"
    /\ \E r \in {extractWith(markdown, pagePath, site, lastIndex)} :
          /\ allEntries' = allEntries \o r.entries
          /\ lastIndex' = r.lastIndex
    /\ pc' = IF allEntries' = <<>> THEN "noMedia" ELSE "dedup"
    /\ UNCHANGED <<deliveryVars, dedupVars, extractVars, startVars, poolVars,
                   enrichVars, logVars>>

(***************************************************************************)
(* token-manager.js: validateToken.  A token is absent, or a string that   *)
(* jwt.decode rejects (null, or an exception), or one it decodes to a      *)
(* payload whose exp is a time in seconds (0: the payload has no exp).     *)
(***************************************************************************)
\* Math.floor(Date.now() / 1000) at the time of the run
Now == 5

NoToken == [present |-> FALSE]
Jwt(exp) == [present |-> TRUE, decodes |-> TRUE, exp |-> exp]
Undecodable == [present |-> TRUE, decodes |-> FALSE]

\* payload.exp && payload.exp < now
Expired(exp) == exp # 0 /\ exp < Now

validateToken(t) ==
    IF ~t.decodes THEN [valid |-> FALSE, expired |-> FALSE]
    ELSE IF Expired(t.exp) THEN [valid |-> FALSE, expired |-> TRUE]
    ELSE [valid |-> TRUE, expired |-> FALSE]

NoExit == -1
NoReport == [printed |-> FALSE]

ZeroStats == [pagesDiscovered |-> 0, markdownPagesProcessed |-> 0,
              standaloneMediaFound |-> 0, mediaFromMarkdown |-> 0,
              totalMediaFound |-> 0]

TokenGate_Open(t) == TRUE
\* if (!token) process.exit(1); if (!validation.valid) process.exit(1)
TokenGate(t) == t.present /\ validateToken(t).valid

\* const token = options.token || process.env.ADMIN_TOKEN and its validation
CheckToken ==
    /\ pc = "start"
    /\ IF TokenGate(token)
          THEN pc' = "createJob" /\ UNCHANGED exitCode
          ELSE pc' = "exit" /\ exitCode' = 1
    /\ UNCHANGED <<allEntries, deliveryVars, dedupVars, extractVars, regexVars,
                   token, remote, polls, report, poolVars, enrichVars, logVars>>

\* catch (error) { spinner.fail('Error'); ...; process.exit(1); }
Fatal == [pc |-> "exit", exitCode |-> 1]
\* the step after an awaited discovery call: the next step when the call
\* returned, the catch of runIngest when it threw
AfterCall(ok, next) == IF ok THEN [pc |-> next, exitCode |-> NoExit] ELSE Fatal

\* discovery.js createBulkStatusJob: POST /status/...; throws when the
\* response is not ok or the job is not in state 'created'
CreateJob(ok) ==
    /\ pc = "createJob"
    /\ remote' = remote \cup {"createJob"}
    /\ pc' = AfterCall(ok, "poll").pc
    /\ exitCode' = AfterCall(ok, "poll").exitCode
    /\ UNCHANGED <<allEntries, deliveryVars, dedupVars, extractVars, regexVars,
                   token, polls, report, poolVars, enrichVars, logVars>>

\* discovery.js pollJobStatus: one GET of the job; it throws when the response
\* is not ok, returns when the state is completed or stopped, and otherwise
\* sleeps pollInterval and asks again
PollStates == {"failed", "running", "completed", "stopped"}

PollAgain_Never(state) == FALSE
\* if (state !== 'completed' && state !== 'stopped'): sleep pollInterval and
\* return pollJobStatus(...) again
PollAgain(state) == state \notin {"completed", "stopped"}

\* ("failed" is a response that is not ok.  A job is found running at most
\* MaxPolls times.)
Poll(state) ==
    /\ pc = "poll"
    /\ state = "running" => Len(polls) < MaxPolls
    /\ remote' = remote \cup {"poll"}
    /\ polls' = Append(polls, state)
    /\ IF state # "failed" /\ PollAgain(state) THEN UNCHANGED <<pc, exitCode>>
       ELSE /\ pc' = AfterCall(state # "failed", "details").pc
            /\ exitCode' = AfterCall(state # "failed", "details").exitCode
    /\ UNCHANGED <<allEntries, deliveryVars, dedupVars, extractVars, regexVars,
                   token, report, poolVars, enrichVars, logVars>>

\* discovery.js getJobDetails, and stats.pagesDiscovered = resources.length
Details(ok) ==
    /\ pc = "details"
    /\ remote' = remote \cup {"details"}
    /\ pc' = AfterCall(ok, "pool").pc
    /\ exitCode' = AfterCall(ok, "pool").exitCode
    /\ stats' = IF ok THEN [stats EXCEPT !.pagesDiscovered = Len(resources)]
                ELSE stats
    /\ UNCHANGED <<allEntries, deliveryVars, dedupVars, extractVars, regexVars,
                   token, polls, report, resources, concurrency, queue,
                   pendingCount, task, settling, handled, enrichVars, logVars>>

(***************************************************************************)
(* discovery.js: isMediaFile, shouldProcessResource                        *)
(***************************************************************************)
ExtJson == <<".", "j", "s", "o", "n">>
ExtYaml == <<".", "y", "a", "m", "l">>
ExtYml == <<".", "y", "m", "l">>
ExtXml == <<".", "x", "m", "l">>
ExtCsv == <<".", "c", "s", "v">>
ExtJs == <<".", "j", "s">>
ExtCss == <<".", "c", "s", "s">>
ExtHtml == <<".", "h", "t", "m", "l">>
ExtZip == <<".", "z", "i", "p">>
ExtTar == <<".", "t", "a", "r">>
ExtGz == <<".", "g", "z">>

MEDIA_EXTENSIONS ==
    {ExtJpg, ExtJpeg, ExtPng, ExtGif, ExtWebp, ExtAvif, ExtSvg,
     ExtMp4, ExtMov, ExtWebm, ExtAvi, ExtM4v, ExtMkv,
     ExtPdf, ExtDoc, ExtDocx, ExtXls, ExtXlsx, ExtPpt, ExtPptx}

IGNORE_EXTENSIONS ==
    {ExtJson, ExtYaml, ExtYml, ExtXml, ExtTxt, ExtCsv,
     ExtJs, ExtCss, ExtHtml, ExtIco, ExtZip, ExtTar, ExtGz}

\* resource.path; a resource without one has the empty path (both are falsy)
PathOf(resource) == IF "path" \in DOMAIN resource THEN resource.path ELSE <<>>

isMediaFile_Never(path) == FALSE
\* if (!path) return false; MEDIA_EXTENSIONS.some((ext) => lowerPath.endsWith(ext))
isMediaFile(path) ==
    /\ path # <<>>
    /\ \E lowerPath \in {toLowerCase(path)} :
          \E ext \in MEDIA_EXTENSIONS : endsWith(lowerPath, ext)

\* false without a path and for a path with an ignored extension
shouldProcessResource(resource) ==
    /\ PathOf(resource) # <<>>
    /\ \A lowerPath \in {toLowerCase(PathOf(resource))} :
          ~\E ext \in IGNORE_EXTENSIONS : endsWith(lowerPath, ext)

\* const processableResources = resources.filter(shouldProcessResource), as the
\* numbers of the resources kept, in order
processableResources(rs) ==
    SelectSeq([i \in DOMAIN rs |-> i], LAMBDA i : shouldProcessResource(rs[i]))

(***************************************************************************)
(* cli.js runIngest: the content-fetch phase.  queue.addAll starts up to   *)
(* `concurrency` tasks at once and queues the rest; PQueue starts the next *)
(* queued task when a running one settles.  The task of a media file runs  *)
(* to its end when it is started; the task of a page awaits fetchMarkdown. *)
(* The continuation that follows the end of a task (PQueue's next()) is a  *)
(* microtask, so it runs before any further response is handled.           *)
(***************************************************************************)
\* what the site serves for a page: its markdown
SiteContent ==
    [p \in {<<"/", "a">>, <<"/", "b">>, <<"/", "c">>} |->
        CASE p = <<"/", "a">> ->
               <<"!", "[", "x", "]", "(", "/", "m", "e", "d", "i", "a", "_", "a",
                 "1", ".", "p", "n", "g", ")">>
          [] p = <<"/", "b">> ->
               <<"!", "[", "z", "]", "[", "I", "D", "]", "\n",
                 "[", "i", "d", "]", ":", " ", "/", "b", ".", "p", "n", "g", "\n">>
          [] p = <<"/", "c">> ->
               <<"!", "[", "x", "]", "(", "/", "a", ".", "p", "n", "g", ")",
                 "!", "[", "y", "]", "(", "/", "b", ".", "p", "n", "g", ")">>
          [] OTHER -> <<"n", "o", " ", "m", "e", "d", "i", "a">>]

ContentOf(path) == IF path \in DOMAIN SiteContent THEN SiteContent[path] ELSE <<>>

NotHandled == [fetches |-> 0, extractions |-> 0, synthesized |-> 0,
               records |-> <<>>, failed |-> FALSE]

\* the entry of a media file found by the crawl (cli.js 263-282)
standaloneEntry(ctx, path) ==
    CHOOSE entry \in
        { LET base == [owner |-> ctx.org, repo |-> ctx.repo, operation |-> "ingest",
                       path |-> path, contentSourceType |-> "markup"]
              typed == IF contentType # ""
                          THEN WithField(base, "contentType", contentType)
                          ELSE base
          IN  IF dimensions.ok
                  THEN WithField(WithField(typed, "width", dimensions.width),
                                 "height", dimensions.height)
                  ELSE typed :
            contentType \in {getContentType(path)},
            dimensions \in {extractDimensions(path)} } : TRUE

\* The pool's state as one record, for the operators below.
PoolState ==
    [queue |-> queue, pendingCount |-> pendingCount, task |-> task,
     settling |-> settling, handled |-> handled, stats |-> stats,
     allEntries |-> allEntries, remote |-> remote]

\* PQueue's job for resource i: pending++, then the task function up to its
\* first await.  A media file: the entry is pushed and the function returns.
\* A page: fetchMarkdown issues its request.
RunTask(st, i, rs, ctx) ==
    IF isMediaFile(PathOf(rs[i]))
        THEN CHOOSE pushed \in
                { [st EXCEPT
                     !.pendingCount = @ + 1,
                     !.allEntries = Append(@, entry),
                     !.stats = [@ EXCEPT !.standaloneMediaFound = @ + 1],
                     !.handled = [@ EXCEPT ![i] =
                         [@ EXCEPT !.synthesized = @ + 1, !.records = <<entry>>]],
                     !.task = [@ EXCEPT ![i] = "settling"],
                     !.settling = Append(@, i)] :
                  entry \in {standaloneEntry(ctx, PathOf(rs[i]))} } : TRUE
        ELSE [st EXCEPT
                !.pendingCount = @ + 1,
                !.remote = @ \cup {"content"},
                !.handled = [@ EXCEPT ![i] = [@ EXCEPT !.fetches = @ + 1]],
                !.task = [@ EXCEPT ![i] = "fetching"]]

MayStart_OneMore(pending, limit) == pending <= limit
\* PQueue: a task is started only while pending < concurrency
MayStart(pending, limit) == pending < limit

\* PQueue tryToStartAnother: the head of the queue is started when the
\* concurrency allows another
tryToStartAnother(st, rs, ctx, limit) ==
    IF st.queue # <<>> /\ MayStart(st.pendingCount, limit)
        THEN CHOOSE started \in
                { RunTask([st EXCEPT !.queue = Tail(@)], i, rs, ctx) :
                    i \in {Head(st.queue)} } : TRUE
        ELSE st

RECURSIVE addAll(_, _, _, _, _, _)
\* queue.addAll(tasks): add() for every task in order, each followed by
\* tryToStartAnother, all in the same turn of the event loop
addAll(st, ids, k, rs, ctx, limit) ==
    IF k > Len(ids) THEN st
    ELSE CHOOSE end \in
            { addAll(started, ids, k + 1, rs, ctx, limit) :
                started \in { tryToStartAnother(
                                 [st EXCEPT !.queue = Append(@, ids[k]),
                                            !.task = [@ EXCEPT ![ids[k]] = "queued"]],
                                 rs, ctx, limit) } } : TRUE

\* the variables the pool operators compute
SetPool(st) ==
    /\ queue' = st.queue
    /\ pendingCount' = st.pendingCount
    /\ task' = st.task
    /\ settling' = st.settling
    /\ handled' = st.handled
    /\ stats' = st.stats
    /\ allEntries' = st.allEntries
    /\ remote' = st.remote

\* new PQueue({ concurrency }) throws a TypeError unless concurrency is a
\* number from 1 up; then await queue.addAll(processableResources.map(...))
StartPool ==
    /\ pc = "pool"
    /\ IF concurrency < 1
          THEN /\ pc' = Fatal.pc
               /\ exitCode' = Fatal.exitCode
               /\ UNCHANGED <<queue, pendingCount, task, settling, handled, stats,
                              allEntries, remote>>
          ELSE /\ pc' = "drain"
               /\ UNCHANGED exitCode
               /\ \E st \in {addAll([PoolState EXCEPT
                                     !.task = [i \in DOMAIN resources |-> "none"],
                                     !.handled = [i \in DOMAIN resources |-> NotHandled]],
                                   processableResources(resources), 1,
                                   resources, site, concurrency)} : SetPool(st)
    /\ UNCHANGED <<deliveryVars, dedupVars, extractVars, regexVars, token, polls,
                   report, resources, concurrency, enrichVars, logVars>>

\* The task that ended first settles: PQueue resolves its promise and calls
\* next(): pending--, then tryToStartAnother.
TaskSettles ==
    /\ pc = "drain"
    /\ settling # <<>>
    /\ \E st \in {tryToStartAnother(
                      [PoolState EXCEPT !.settling = Tail(@),
                                        !.pendingCount = @ - 1,
                                        !.task = [@ EXCEPT ![Head(settling)] = "done"]],
                      resources, site, concurrency)} : SetPool(st)
    /\ UNCHANGED <<pc, deliveryVars, dedupVars, extractVars, regexVars, token,
                   exitCode, polls, report, resources, concurrency, enrichVars,
                   logVars>>

\* stats.errors += 1 in the catch of a task
TaskError_Uncounted(n) == n
TaskError(n) == n + 1

PushAll_Last(list, entries) ==
    IF entries = <<>> THEN list ELSE Append(list, entries[Len(entries)])
\* allEntries.push(...entries): every entry of the page, in order, at the end
PushAll(list, entries) == list \o entries

\* The page task of resource i goes on: fetchMarkdown returned the markdown
\* (the entries are extracted and pushed) or threw (the catch of the task
\* counts the error); then the task function returns.
FetchDone(i, ok) ==
    /\ pc = "drain"
    /\ settling = <<>>
    /\ i \in DOMAIN task
    /\ task[i] = "fetching"
    /\ \E r \in {IF ok THEN extractWith(ContentOf(PathOf(resources[i])),
                                         PathOf(resources[i]), site, lastIndex)
                        ELSE [entries |-> <<>>, lastIndex |-> lastIndex]} :
           IF ok
           THEN /\ allEntries' = PushAll(allEntries, r.entries)
                /\ lastIndex' = r.lastIndex
                /\ stats' = [stats EXCEPT
                               !.markdownPagesProcessed = @ + 1,
                               !.mediaFromMarkdown = @ + Len(r.entries)]
                /\ handled' = [handled EXCEPT ![i] =
                                 [@ EXCEPT !.extractions = @ + 1,
                                           !.records = r.entries]]
                /\ UNCHANGED errors
           ELSE /\ errors' = TaskError(errors)
                /\ handled' = [handled EXCEPT ![i] = [@ EXCEPT !.failed = TRUE]]
                /\ UNCHANGED <<allEntries, lastIndex, stats>>
    /\ task' = [task EXCEPT ![i] = "settling"]
    /\ settling' = Append(settling, i)
    /\ UNCHANGED <<batchSize, dryRun, batches, index, attempt, inflight,
                   lastOutcome, error, batchesSent, failedFile, status, requests,
                   rateLimits, batchWaits, settled, pauses, gap, saves, pc,
                   dedupVars, extractVars, startVars, resources, concurrency,
                   queue, pendingCount, enrichVars, logVars>>

\* if (allEntries.length === 0) { console.log('No media found'); return; }
AfterPool(n) ==
    IF n = 0 THEN [pc |-> "noMedia", exitCode |-> 0]
    ELSE [pc |-> "dedup", exitCode |-> NoExit]

AllSettled_Any(t) == TRUE
\* await queue.addAll(...): the promise of every task has resolved
AllSettled(t) == \A i \in DOMAIN t : t[i] \in {"none", "done"}

\* Every promise of addAll has resolved: stats.totalMediaFound is set and the
\* run goes on to the deduplication, or returns when nothing was found.
PoolDrained ==
    /\ pc = "drain"
    /\ settling = <<>>
    /\ AllSettled(task)
    /\ stats' = [stats EXCEPT !.totalMediaFound = Len(allEntries)]
    /\ pc' = AfterPool(Len(allEntries)).pc
    /\ exitCode' = AfterPool(Len(allEntries)).exitCode
    /\ UNCHANGED <<allEntries, deliveryVars, dedupVars, extractVars, regexVars,
                   token, remote, polls, report, resources, concurrency, queue,
                   pendingCount, task, settling, handled, enrichVars, logVars>>

\* if (verify && !dryRun && stats.batchesSent > 0) verifyMediaLog(...), whose
\* failure is only warned about; then console.log(generateReport(stats))
Report(verify) ==
    /\ pc = "report"
    /\ remote' = IF verify /\ ~dryRun /\ batchesSent > 0
                    THEN remote \cup {"verify"} ELSE remote
    /\ report' = [printed |-> TRUE,
                  pagesDiscovered |-> stats.pagesDiscovered,
                  markdownPagesProcessed |-> stats.markdownPagesProcessed,
                  standaloneMediaFound |-> stats.standaloneMediaFound,
                  mediaFromMarkdown |-> stats.mediaFromMarkdown,
                  totalMediaFound |-> stats.totalMediaFound,
                  batchesSent |-> batchesSent, errors |-> errors]
    /\ pc' = "done"
    /\ exitCode' = 0
    /\ UNCHANGED <<allEntries, deliveryVars, dedupVars, extractVars, regexVars,
                   token, polls, poolVars, enrichVars, logVars>>

\* The run has not started: nothing was discovered, fetched or reported.
NoRun ==
    /\ lastIndex = FreshIndex
    /\ token = Jwt(0)
    /\ exitCode = NoExit
    /\ remote = {}
    /\ polls = <<>>
    /\ report = NoReport
    /\ resources = <<>>
    /\ concurrency = 3
    /\ queue = <<>>
    /\ pendingCount = 0
    /\ task = <<>>
    /\ settling = <<>>
    /\ handled = <<>>
    /\ stats = ZeroStats

\* A record left in failed-entries.json by an earlier run.
OldRecord == failedEntry(<<0>>, <<"earlier run">>)

InitialFiles == {AbsentFile, ListFile(<<OldRecord>>), CorruptFile}

\* The delivery phase is reached only with at least one collected record
\* (runIngest returns at "No media found" otherwise).
Init ==
    /\ allEntries \in {[i \in 1..n |-> i] : n \in 1..MaxEntries}
    /\ batchSize \in DeliveryBatchSizes
    /\ dryRun \in BOOLEAN
    /\ failedFile \in InitialFiles
    /\ batches = <<>>
    /\ pc = "partition"
    /\ index = 0
    /\ attempt = 0
    /\ inflight = 0
    /\ lastOutcome = 0
    /\ error = <<>>
    /\ batchesSent = 0
    /\ errors = 0
    /\ status = <<>>
    /\ requests = <<>>
    /\ rateLimits = <<>>
    /\ batchWaits = <<>>
    /\ settled = 0
    /\ pauses = 0
    /\ gap = 0
    /\ saves = <<>>
    /\ seenHashes = {}
    /\ ingestCount = 0
    /\ reuseCount = 0
    /\ NoExtraction
    /\ NoEnrichment
    /\ NoRun

Next ==
    \/ Partition
    \/ Settle
    \/ LoopHead
    \/ Request
    \/ RequestFails
    \/ \E o \in Statuses : Respond(o)
    \/ Backoff
    \/ Sent
    \/ \E io \in IoOutcomes : Catch(io)

Spec == Init /\ [][Next]_vars

(***************************************************************************)
(* The loop of batchEntries turn by turn, for every value the option       *)
(* --batch-size can have: commander hands the text to runIngest as it was  *)
(* typed, and parseInt(text, 10) reads an optional sign and the digits     *)
(* that follow.                                                            *)
(***************************************************************************)
DigitValue(c) ==
    CASE c = "0" -> 0 [] c = "1" -> 1 [] c = "2" -> 2 [] c = "3" -> 3
      [] c = "4" -> 4 [] c = "5" -> 5 [] c = "6" -> 6 [] c = "7" -> 7
      [] c = "8" -> 8 [] c = "9" -> 9

RECURSIVE ParseDigits(_, _, _)
\* the value of the digits of s from position p on, after the value acc of
\* the digits before; the first character that is no digit ends the number
ParseDigits(s, p, acc) ==
    IF p <= Len(s) /\ s[p] \in Digits
        THEN ParseDigits(s, p + 1, 10 * acc + DigitValue(s[p]))
        ELSE acc

RECURSIVE SkipWhitespace(_, _)
SkipWhitespace(s, p) ==
    IF p <= Len(s) /\ s[p] \in Whitespace THEN SkipWhitespace(s, p + 1) ELSE p

\* parseInt(s, 10): leading whitespace is skipped, a sign is read, and NaN
\* results when no digit follows
parseInt(s) ==
    LET p == SkipWhitespace(s, 1)
        signed == p <= Len(s) /\ s[p] \in {"-", "+"}
        q == IF signed THEN p + 1 ELSE p
    IN  IF q > Len(s) \/ s[q] \notin Digits THEN NaN
        ELSE IF signed /\ s[p] = "-" THEN 0 - ParseDigits(s, q, 0)
        ELSE ParseDigits(s, q, 0)

\* texts given to --batch-size: the default, sizes below and above the
\* limit, zero, a negative size, and texts that are no number
BatchSizeTexts ==
    { <<"1", "0">>, <<"1">>, <<"2">>, <<" ", "3", "x">>, <<"1", "2">>,
      <<"0">>, <<"-", "1">>, <<"-", "2">>, <<"a", "b", "c">>, <<>> }

RECURSIVE LoopI(_, _)
\* the loop variable i of batchEntries after k turns: let i = 0, and
\* i += batchSize at the end of every turn
LoopI(k, size) == IF k = 0 THEN 0 ELSE Plus(LoopI(k - 1, size), size)

\* runIngest calls batchEntries: const batches = []
BatchStart ==
    /\ pc = "partition"
    /\ batches' = <<>>
    /\ pc' = "batching"
    /\ UNCHANGED <<allEntries, batchSize, dryRun, index, attempt, inflight,
                   lastOutcome, error, batchesSent, errors, failedFile, status,
                   requests, rateLimits, batchWaits, settled, pauses, gap, saves,
                   dedupVars, extractVars, runVars, enrichVars, logVars>>

\* the test of the for loop: i < entries.length
LoopGoesOn(i, n) == Less(i, n)

\* One turn of the loop: batches.push(entries.slice(i, i + batchSize)).  One
\* batch is pushed per turn, so the number of turns taken is batches.length.
\* (The runs stop following a loop that has taken MaxExtraTurns turns more
\* than there are entries.)
BatchTurn ==
    /\ pc = "batching"
    /\ Len(batches) < Len(allEntries) + MaxExtraTurns
    /\ \E size \in {EffectiveBatchSize(batchSize)} :
         \E i \in {LoopI(Len(batches), size)} :
            /\ LoopGoesOn(i, Len(allEntries))
            /\ batches' = Append(batches, Slice(allEntries, i, SliceEnd(i, size)))
    /\ UNCHANGED <<allEntries, batchSize, dryRun, pc, index, attempt, inflight,
                   lastOutcome, error, batchesSent, errors, failedFile, status,
                   requests, rateLimits, batchWaits, settled, pauses, gap, saves,
                   dedupVars, extractVars, runVars, enrichVars, logVars>>

\* The test fails: return batches, and runIngest goes on to the delivery.
BatchReturn ==
    /\ pc = "batching"
    /\ ~LoopGoesOn(LoopI(Len(batches), EffectiveBatchSize(batchSize)),
                   Len(allEntries))
    /\ status' = [i \in 1..Len(batches) |-> "Pending"]
    /\ batchWaits' = [i \in 1..Len(batches) |-> <<>>]
    /\ rateLimits' = [i \in 1..Len(batches) |-> 0]
    /\ pc' = "settle"
    /\ UNCHANGED <<allEntries, batchSize, dryRun, batches, index, attempt, inflight,
                   lastOutcome, error, batchesSent, errors, failedFile, requests,
                   settled, pauses, gap, saves, dedupVars, extractVars, runVars,
                   enrichVars, logVars>>

(***************************************************************************)
(* Partitioning runs: every list length and configured size up to the      *)
(* bounds, through the partition step of runIngest.                        *)
(***************************************************************************)
InitBatch ==
    /\ allEntries \in {[i \in 1..n |-> i] : n \in 1..MaxPartEntries}
    /\ batchSize \in 1..MaxConfigured
    /\ dryRun = TRUE
    /\ failedFile = AbsentFile
    /\ batches = <<>>
    /\ pc = "partition"
    /\ index = 0
    /\ attempt = 0
    /\ inflight = 0
    /\ lastOutcome = 0
    /\ error = <<>>
    /\ batchesSent = 0
    /\ errors = 0
    /\ status = <<>>
    /\ requests = <<>>
    /\ rateLimits = <<>>
    /\ batchWaits = <<>>
    /\ settled = 0
    /\ pauses = 0
    /\ gap = 0
    /\ saves = <<>>
    /\ seenHashes = {}
    /\ ingestCount = 0
    /\ reuseCount = 0
    /\ NoExtraction
    /\ NoEnrichment
    /\ NoRun

NextBatch == Partition

SpecBatch == InitBatch /\ [][NextBatch]_vars

(***************************************************************************)
(* Deduplication runs: every list of collected records up to the bound.    *)
(***************************************************************************)
\* "/media_a1.png" and "/x/media_a1.jpg" carry the same hash a1;
\* "/media_b2.png" carries b2; "/img.png" carries none.
PathA1 == <<"/", "m", "e", "d", "i", "a", "_", "a", "1", ".", "p", "n", "g">>
PathXA1 == <<"/", "x", "/", "m", "e", "d", "i", "a", "_", "a", "1", ".", "j", "p", "g">>
PathB2 == <<"/", "m", "e", "d", "i", "a", "_", "b", "2", ".", "p", "n", "g">>
PathImg == <<"/", "i", "m", "g", ".", "p", "n", "g">>
Paths == {PathA1, PathXA1, PathB2, PathImg}

\* contentSourcePath of a record: the URL of its page; "" stands for a
\* standalone media file, whose record has no contentSourcePath.
Sources == {"", "https://main--repo--org.aem.page/a", "https://main--repo--org.aem.page/b"}

\* Records as collected: every one is created with operation 'ingest'.
Collected == [path : Paths, contentSourcePath : Sources, operation : {"ingest"}]

\* const deduplicatedEntries = allEntries.map(...); allEntries.length = 0;
\* allEntries.push(...deduplicatedEntries)
Deduplicate ==
    /\ pc = "dedup"
    /\ LET r == DedupLoop(allEntries, 1, {}, <<>>, 0, 0)
       IN  /\ allEntries' = r.entries
           /\ seenHashes' = r.seen
           /\ ingestCount' = r.ingest
           /\ reuseCount' = r.reuse
    /\ pc' = "enrich"
    /\ UNCHANGED <<batchSize, dryRun, batches, index, attempt, inflight,
                   lastOutcome, error, batchesSent, errors, failedFile, status,
                   requests, rateLimits, batchWaits, settled, pauses, gap, saves,
                   extractVars, runVars, enrichVars, logVars>>

\* Deduplication is reached only with at least one collected record.
InitDedup ==
    /\ allEntries \in UNION {[1..n -> Collected] : n \in 1..MaxDedupEntries}
    /\ batchSize = BatchLimit
    /\ dryRun = TRUE
    /\ failedFile = AbsentFile
    /\ batches = <<>>
    /\ pc = "dedup"
    /\ index = 0
    /\ attempt = 0
    /\ inflight = 0
    /\ lastOutcome = 0
    /\ error = <<>>
    /\ batchesSent = 0
    /\ errors = 0
    /\ status = <<>>
    /\ requests = <<>>
    /\ rateLimits = <<>>
    /\ batchWaits = <<>>
    /\ settled = 0
    /\ pauses = 0
    /\ gap = 0
    /\ saves = <<>>
    /\ seenHashes = {}
    /\ ingestCount = 0
    /\ reuseCount = 0
    /\ NoExtraction
    /\ NoEnrichment
    /\ NoRun

NextDedup == Deduplicate

SpecDedup == InitDedup /\ [][NextDedup]_vars

(***************************************************************************)
(* Runs of the other stages.  In each of them the stages that are not      *)
(* running are at rest:                                                    *)
(***************************************************************************)
\* the delivery loop has not started (batch size 2 unless said otherwise)
DeliveryAtRest ==
    /\ failedFile = AbsentFile
    /\ batches = <<>>
    /\ index = 0
    /\ attempt = 0
    /\ inflight = 0
    /\ lastOutcome = 0
    /\ error = <<>>
    /\ batchesSent = 0
    /\ errors = 0
    /\ status = <<>>
    /\ requests = <<>>
    /\ rateLimits = <<>>
    /\ batchWaits = <<>>
    /\ settled = 0
    /\ pauses = 0
    /\ gap = 0
    /\ saves = <<>>

\* deduplication has not started
DedupAtRest ==
    /\ seenHashes = {}
    /\ ingestCount = 0
    /\ reuseCount = 0

DefaultSite == [org |-> <<"o">>, repo |-> <<"r">>, ref |-> <<"m", "a", "i", "n">>]

(***************************************************************************)
(* Extraction runs: one page whose markdown is a concatenation of up to    *)
(* MaxFragments of the fragments below.                                    *)
(***************************************************************************)
UrlA == <<"/", "a", ".", "p", "n", "g">>
UrlB == <<"/", "b", ".", "p", "n", "g">>
UrlVideo == <<"/", "v", ".", "m", "p", "4">>
UrlPdfPng == <<"/", "d", ".", "p", "d", "f", ".", "p", "n", "g">>
UrlPage == <<"/", "p">>

\* ![x](/a.png)
FragInline == <<"!", "[", "x", "]", "(">> \o UrlA \o <<")">>
\* ![y](/b.png "T")
FragInlineTitle == <<"!", "[", "y", "]", "(">> \o UrlB \o <<" ", "\"", "T", "\"", ")">>
\* ![ ](/v.mp4)
FragInlineVideo == <<"!", "[", " ", "]", "(">> \o UrlVideo \o <<")">>
\* ![e]()
FragInlineEmpty == <<"!", "[", "e", "]", "(", ")">>
\* ![z][ID]
FragRefImage == <<"!", "[", "z", "]", "[", "I", "D", "]">>
\* [id]: /a.png       on a line of its own
FragDefA == <<"\n", "[", "i", "d", "]", ":", " ">> \o UrlA \o <<"\n">>
\* [Id]: /b.png "U"   on a line of its own
FragDefB == <<"\n", "[", "I", "d", "]", ":", " ">> \o UrlB
               \o <<" ", "\"", "U", "\"", "\n">>
\* [id]:              a definition without url, on a line of its own
FragDefEmpty == <<"\n", "[", "i", "d", "]", ":", "\n">>
\* [t](/v.mp4)
FragLinkVideo == <<"[", "t", "]", "(">> \o UrlVideo \o <<")">>
\* [t](/d.pdf.png)
FragLinkPdfPng == <<"[", "t", "]", "(">> \o UrlPdfPng \o <<")">>
\* [t](/p)
FragLinkPage == <<"[", "t", "]", "(">> \o UrlPage \o <<")">>

Fragments == {FragInline, FragInlineTitle, FragInlineVideo, FragInlineEmpty,
              FragRefImage, FragDefA, FragDefB, FragDefEmpty, FragLinkVideo,
              FragLinkPdfPng, FragLinkPage}

Docs == {Flatten(fs) : fs \in UNION {[1..n -> Fragments] : n \in 0..MaxFragments}}

InitExtract ==
    /\ markdown \in Docs
    /\ pagePath = PageA
    /\ site = DefaultSite
    /\ allEntries = <<>>
    /\ pc = "extract"
    /\ batchSize = 2
    /\ dryRun = TRUE
    /\ DeliveryAtRest
    /\ DedupAtRest
    /\ NoEnrichment
    /\ NoRun

NextExtract == ExtractPage

SpecExtract == InitExtract /\ [][NextExtract]_vars

(***************************************************************************)
(* Runs of the wired pipeline: a page is extracted, its entries are        *)
(* deduplicated, the user index is built from the log and the entries are  *)
(* enriched.                                                               *)
(***************************************************************************)
WireDocs == {FragInline, FragInlineTitle \o FragLinkVideo}

InitWire ==
    /\ markdown \in WireDocs
    /\ pagePath \in {PageA, PageB}
    /\ site = DefaultSite
    /\ allEntries = <<>>
    /\ pc = "extract"
    /\ batchSize = 2
    /\ dryRun = FALSE
    /\ skipUserEnrichment = FALSE
    /\ fallbackUser \in {"", "carol"}
    /\ userMap = EmptyMap
    /\ logUrl = ""
    /\ logRequests = <<>>
    /\ lastPage = <<>>
    /\ logEnd = ""
    /\ DeliveryAtRest
    /\ DedupAtRest
    /\ NoRun

NextWire ==
    \/ ExtractPage
    \/ Deduplicate
    \/ StartEnrichment
    \/ LogRequest
    \/ \E entries \in LogPages, next \in NextLinks \cup {""} : LogPage(entries, next)
    \/ \E o \in LogErrorStatuses : LogNotOk(o)
    \/ \E how \in {"fetchRejected", "jsonRejected"} : LogThrows(how)
    \/ EnrichEntries

SpecWire == InitWire /\ [][NextWire]_vars

(***************************************************************************)
(* Enrichment runs: the map over the entries, for every list of entries up *)
(* to the bound and the index read from a one-page log.                    *)
(***************************************************************************)
AemLive == <<".", "a", "e", "m", ".", "l", "i", "v", "e">>

\* an entry as the site crawl synthesizes it: no source page
StandaloneEntry == [path |-> PathImg, operation |-> "ingest"]

\* Entries handed to the enricher: with the sourcePath of page /a or /b, with a
\* sourcePath on another host suffix, without any, and with the source page
\* under the name contentSourcePath only.
EnrichInputs ==
    { WithField(StandaloneEntry, "sourcePath", sourceUrl(DefaultSite, PageA)),
      WithField(StandaloneEntry, "sourcePath", sourceUrl(DefaultSite, PageB)),
      WithField(StandaloneEntry, "sourcePath",
                Https \o <<"m", "a", "i", "n", "-", "-", "r", "-", "-", "o">>
                      \o AemLive \o PageA),
      StandaloneEntry,
      WithField(StandaloneEntry, "contentSourcePath", sourceUrl(DefaultSite, PageA)) }

\* the only page of the log
IndexPages ==
    { <<>>,
      << [route |-> "preview", path |-> PageA, user |-> "alice"] >>,
      << [route |-> "preview", path |-> PageB, user |-> "bob"],
         [route |-> "preview", path |-> PageA, user |-> "bob"] >> }

InitEnrich ==
    /\ allEntries \in UNION {[1..n -> EnrichInputs] : n \in 1..MaxEnrichEntries}
    /\ fallbackUser \in {"", "carol"}
    /\ lastPage \in IndexPages
    /\ userMap = FoldEntries(EmptyMap, lastPage, 1)
    /\ logUrl = FirstLogUrl
    /\ logRequests = <<FirstLogUrl>>
    /\ logEnd = "noNext"
    /\ pc = "logDone"
    /\ skipUserEnrichment = FALSE
    /\ dryRun = FALSE
    /\ batchSize = 2
    /\ DeliveryAtRest
    /\ DedupAtRest
    /\ NoExtraction
    /\ NoRun

NextEnrich == EnrichEntries

SpecEnrich == InitEnrich /\ [][NextEnrich]_vars

(***************************************************************************)
(* Annotation runs: deduplication followed, with enrichment skipped, by    *)
(* the partition and the delivery loop.                                    *)
(***************************************************************************)
AnnotateInputs ==
    { [path |-> PathA1, contentSourcePath |-> "", operation |-> "ingest"],
      [path |-> PathA1, contentSourcePath |-> "https://main--repo--org.aem.page/a",
       operation |-> "ingest"],
      [path |-> PathImg, contentSourcePath |-> "https://main--repo--org.aem.page/a",
       operation |-> "ingest"] }

InitAnnotate ==
    /\ allEntries \in UNION {[1..n -> AnnotateInputs] : n \in 1..MaxDedupEntries}
    /\ pc = "dedup"
    /\ batchSize = 2
    /\ dryRun \in BOOLEAN
    /\ DeliveryAtRest
    /\ DedupAtRest
    /\ NoExtraction
    /\ NoEnrichment
    /\ NoRun

NextAnnotate ==
    \/ Deduplicate
    \/ SkipEnrichment
    \/ Next

SpecAnnotate == InitAnnotate /\ [][NextAnnotate]_vars

(***************************************************************************)
(* Content-fetch runs: the status job has reported its resources, and the  *)
(* worker pool handles them under every order of the responses.            *)
(***************************************************************************)
PathPageA == <<"/", "a">>
PathPageB == <<"/", "b">>
PathPageC == <<"/", "c">>
PathIgnored == <<"/", "x", ".", "j", "s", "o", "n">>

\* A page whose image is the media file the crawl also reports, a page with a
\* reference-style image, a media file, a resource with an ignored
\* extension, and a resource without a path.
ResourceKinds ==
    { [path |-> PathPageA], [path |-> PathPageB], [path |-> PathA1],
      [path |-> PathIgnored], [status |-> 404] }

DiscoveryDone ==
    /\ token = Jwt(0)
    /\ exitCode = NoExit
    /\ remote = {"createJob", "poll", "details"}
    /\ polls = <<"completed">>
    /\ report = NoReport

PoolAtRest ==
    /\ queue = <<>>
    /\ pendingCount = 0
    /\ task = <<>>
    /\ settling = <<>>
    /\ handled = <<>>

\* --concurrency <number>, default '3'
DefaultConcurrency == 3

\* Larger sites: tasks that outnumber the limit, a page extracted twice with
\* another one in between, and every kind of resource together.
PoolSites ==
    { << [path |-> PathPageA], [path |-> PathPageB], [path |-> PathA1] >>,
      << [path |-> PathA1], [path |-> PathIgnored], [path |-> PathPageA] >>,
      << [path |-> PathPageB], [path |-> PathPageA], [path |-> PathPageB],
         [path |-> PathPageA] >>,
      << [path |-> PathA1], [path |-> PathA1] >>,
      << [path |-> PathPageB], [path |-> PathPageA], [path |-> PathPageB] >>,
      << [path |-> PathPageA], [path |-> PathPageA], [path |-> PathA1] >>,
      << [status |-> 404], [path |-> PathPageA] >>,
      << [path |-> PathPageC], [path |-> PathPageA] >>,
      << >> }

InitPool ==
    /\ resources \in UNION {[1..n -> ResourceKinds] : n \in 0..MaxResources}
                     \cup PoolSites
    /\ concurrency \in 0..DefaultConcurrency
    /\ stats = [ZeroStats EXCEPT !.pagesDiscovered = Len(resources)]
    /\ pc = "pool"
    /\ allEntries = <<>>
    /\ lastIndex = FreshIndex
    /\ batchSize = 10
    /\ dryRun = FALSE
    /\ DiscoveryDone
    /\ PoolAtRest
    /\ DeliveryAtRest
    /\ DedupAtRest
    /\ NoExtraction
    /\ NoEnrichment

NextPool ==
    \/ StartPool
    \/ TaskSettles
    \/ \E i \in DOMAIN resources, ok \in BOOLEAN : FetchDone(i, ok)
    \/ PoolDrained

SpecPool == InitPool /\ [][NextPool]_vars

InitFairPool ==
    /\ resources \in PoolSites
    /\ concurrency \in 0..DefaultConcurrency
    /\ stats = [ZeroStats EXCEPT !.pagesDiscovered = Len(resources)]
    /\ pc = "pool"
    /\ allEntries = <<>>
    /\ lastIndex = FreshIndex
    /\ batchSize = 10
    /\ dryRun = FALSE
    /\ DiscoveryDone
    /\ PoolAtRest
    /\ DeliveryAtRest
    /\ DedupAtRest
    /\ NoExtraction
    /\ NoEnrichment

\* Every response arrives and every continuation runs.
FairPool == InitFairPool /\ [][NextPool]_vars /\ WF_vars(NextPool)

(***************************************************************************)
(* Whole runs of runIngest, from the token check to the report, with the   *)
(* enrichment skipped.                                                     *)
(***************************************************************************)
Tokens == {NoToken, Undecodable, Jwt(Now - 1), Jwt(0), Jwt(Now), Jwt(Now + 1)}

RunSites ==
    { <<>>, << [path |-> PathPageA] >>, << [path |-> PathPageB], [path |-> PathA1] >>,
      << [path |-> PathIgnored] >> }

InitRun ==
    /\ token \in Tokens
    /\ resources \in RunSites
    /\ concurrency \in {0, 1, 3}
    /\ dryRun \in BOOLEAN
    /\ batchSize = 1
    /\ pc = "start"
    /\ allEntries = <<>>
    /\ lastIndex = FreshIndex
    /\ exitCode = NoExit
    /\ remote = {}
    /\ polls = <<>>
    /\ report = NoReport
    /\ stats = ZeroStats
    /\ PoolAtRest
    /\ DeliveryAtRest
    /\ DedupAtRest
    /\ NoExtraction
    /\ NoEnrichment

NextRun ==
    \/ CheckToken
    \/ \E ok \in BOOLEAN : CreateJob(ok)
    \/ \E state \in PollStates : Poll(state)
    \/ \E ok \in BOOLEAN : Details(ok)
    \/ StartPool
    \/ TaskSettles
    \/ \E i \in DOMAIN resources, ok \in BOOLEAN : FetchDone(i, ok)
    \/ PoolDrained
    \/ Deduplicate
    \/ SkipEnrichment
    \/ Next
    \/ \E verify \in BOOLEAN : Report(verify)

SpecRun == InitRun /\ [][NextRun]_vars

(***************************************************************************)
(* Runs from the worker pool to the end of the delivery loop, with the     *)
(* enrichment on or off: the phases of runIngest after the discovery.      *)
(***************************************************************************)
PhaseSites ==
    { << [path |-> PathPageA], [path |-> PathA1] >>,
      << [path |-> PathPageB], [path |-> PathPageA] >> }

\* the log pages served in these runs: empty, or holding one event
PhaseLogPages == {<<>>} \cup {<<e>> : e \in LogEvents}

InitPhases ==
    /\ resources \in PhaseSites
    /\ concurrency \in {1, DefaultConcurrency}
    /\ dryRun \in BOOLEAN
    /\ skipUserEnrichment \in BOOLEAN
    /\ fallbackUser = ""
    /\ userMap = EmptyMap
    /\ logUrl = ""
    /\ logRequests = <<>>
    /\ lastPage = <<>>
    /\ logEnd = ""
    /\ stats = [ZeroStats EXCEPT !.pagesDiscovered = Len(resources)]
    /\ pc = "pool"
    /\ allEntries = <<>>
    /\ lastIndex = FreshIndex
    /\ batchSize = 1
    /\ DiscoveryDone
    /\ PoolAtRest
    /\ DeliveryAtRest
    /\ DedupAtRest
    /\ NoExtraction

NextPhases ==
    \/ StartPool
    \/ TaskSettles
    \/ \E i \in DOMAIN resources, ok \in BOOLEAN : FetchDone(i, ok)
    \/ PoolDrained
    \/ Deduplicate
    \/ StartEnrichment
    \/ SkipEnrichment
    \/ LogRequest
    \/ \E entries \in PhaseLogPages, next \in NextLinks \cup {""} :
          LogPage(entries, next)
    \/ \E o \in LogErrorStatuses : LogNotOk(o)
    \/ \E how \in {"fetchRejected", "jsonRejected"} : LogThrows(how)
    \/ EnrichEntries
    \/ Next

SpecPhases == InitPhases /\ [][NextPhases]_vars

\* Delivery runs in which every request is answered and every step is taken.
FairSpec == Spec /\ WF_vars(Next)

(***************************************************************************)
(* Extraction runs over several site contexts and pages, the documented    *)
(* example among them.                                                     *)
(***************************************************************************)
\* ![Product shot](img/p1_abc123.png "Main")
\* [spec sheet](docs/spec.pdf)
ExampleDoc ==
    <<"!", "[", "P", "r", "o", "d", "u", "c", "t", " ", "s", "h", "o", "t",
      "]", "(", "i", "m", "g", "/", "p", "1", "_", "a", "b", "c", "1", "2",
      "3", ".", "p", "n", "g", " ", "\"", "M", "a", "i", "n", "\"", ")",
      "\n", "[", "s", "p", "e", "c", " ", "s", "h", "e", "e", "t", "]",
      "(", "d", "o", "c", "s", "/", "s", "p", "e", "c", ".", "p", "d", "f",
      ")">>
ExamplePage == <<"/", "p", "r", "o", "d", "u", "c", "t", "s", "/", "x">>

SourceSites ==
    { DefaultSite,
      [org |-> <<"a", "c", "m", "e">>, repo |-> <<"w", "e", "b">>,
       ref |-> <<"d", "e", "v">>],
      [org |-> <<"o">>, repo |-> <<"r", "-", "2">>, ref |-> <<"m", "a", "i", "n">>] }

\* a page under a folder whose name repeats the host suffix
PageNested == <<"/", "x", ".", "a", "e", "m", ".", "p", "a", "g", "e", "/", "y">>

SourcePages == {ExamplePage, PageA, <<"/">>, PageNested}

SourceDocs ==
    { ExampleDoc, FragInline, FragInlineTitle \o FragLinkVideo, FragLinkPage,
      FragRefImage \o FragDefA, FragInline \o FragLinkPdfPng, FragInlineVideo }

InitSource ==
    /\ markdown \in SourceDocs
    /\ pagePath \in SourcePages
    /\ site \in SourceSites
    /\ allEntries = <<>>
    /\ pc = "extract"
    /\ batchSize = 2
    /\ dryRun = TRUE
    /\ DeliveryAtRest
    /\ DedupAtRest
    /\ NoEnrichment
    /\ NoRun

NextSource == ExtractPage

SpecSource == InitSource /\ [][NextSource]_vars

(***************************************************************************)
(* Partitioning turn by turn: every list length up to the bound and every  *)
(* text of --batch-size, through the loop of batchEntries.                 *)
(***************************************************************************)
InitLoop ==
    /\ allEntries \in {[i \in 1..n |-> i] : n \in 1..MaxPartEntries}
    /\ batchSize \in {parseInt(text) : text \in BatchSizeTexts}
    /\ dryRun = TRUE
    /\ pc = "partition"
    /\ DeliveryAtRest
    /\ DedupAtRest
    /\ NoExtraction
    /\ NoEnrichment
    /\ NoRun

NextLoop ==
    \/ BatchStart
    \/ BatchTurn
    \/ BatchReturn

SpecLoop == InitLoop /\ [][NextLoop]_vars

(***************************************************************************)
(* Delivery: retry, backoff, failure capture, sequencing (under Spec).     *)
(***************************************************************************)
Terminal(i) == status[i] \in {"Sent", "Failed"}

\* the saveFailedBatch calls made for batch i
SavesOf(i) == {s \in DOMAIN saves : saves[s].batch = i}

\* the call appended exactly one record, holding the batch and the error caught
AppendedOne(s) ==
    /\ saves[s].after.kind = "list"
    /\ Len(saves[s].after.recs) = Len(saves[s].before.recs) + 1
    /\ SubSeq(saves[s].after.recs, 1, Len(saves[s].before.recs)) = saves[s].before.recs
    /\ saves[s].after.recs[Len(saves[s].after.recs)]
          = [error |-> saves[s].err, entries |-> batches[saves[s].batch]]

\* the call left the file without any record of the batch
WroteNothing(s) ==
    \A r \in DOMAIN saves[s].after.recs :
        saves[s].after.recs[r].entries # batches[saves[s].batch]

\* the file could be read as a list (or was absent) and read and write succeeded
FileUsable(s) == saves[s].io = "ok" /\ saves[s].before.kind # "corrupt"

\* C1: every batch is submitted at most 4 times; a request with attempt
\* number > 0 follows a 403 or 429 response; and the attempt number of a
\* request equals the number of earlier requests for the same batch, so the
\* counter starts at 0 for every batch.
C1_BoundedRetries ==
    /\ \A i \in DOMAIN batches : SubmitCount(i) <= 4
    /\ \A k \in DOMAIN requests :
          requests[k].attempt
             = Cardinality({j \in 1..(k - 1) : requests[j].batch = requests[k].batch})
    /\ (pc \in {"backoff", "request", "await"} /\ attempt > 0)
          => lastOutcome \in {403, 429}

\* A batch used all 4 attempts and a later batch started again at attempt 0.
C1_Witness ==
    /\ Len(batches) >= 2
    /\ SubmitCount(1) = 4
    /\ \E k \in DOMAIN requests : requests[k].batch = 2 /\ requests[k].attempt = 0

\* C2: a batch that ends Sent after k rate-limit responses (k in 0..3) was
\* submitted k + 1 times, took exactly the backoff waits 1000, 2000, 4000 ms
\* cut to the first k, in that order, and no failure record was written for it.
C2_BackoffThenSent ==
    \A i \in DOMAIN batches :
        (status[i] = "Sent" /\ ~dryRun) =>
            /\ rateLimits[i] \in 0..3
            /\ SubmitCount(i) = rateLimits[i] + 1
            /\ batchWaits[i] = SubSeq(<<1000, 2000, 4000>>, 1, rateLimits[i])
            /\ SavesOf(i) = {}
            /\ \A r \in DOMAIN failedFile.recs : failedFile.recs[r].entries # batches[i]

\* Rate limit on attempts 0 and 1, success on attempt 2: two waits, 1 s and 2 s.
C2_Witness ==
    /\ Len(batches) >= 1
    /\ status[1] = "Sent"
    /\ rateLimits[1] = 2
    /\ batchWaits[1] = <<1000, 2000>>

\* batch i got a rate-limit response on all 4 attempts
Exhausted(i) == status[i] = "Failed" /\ rateLimits[i] = 4

NonRetryable(s) == saves[s].outcome \notin {403, 429}

\* no backoff and no request happened for the batch after the failing attempt
EndedAtOnce(s) ==
    /\ status[saves[s].batch] = "Failed"
    /\ rateLimits[saves[s].batch] = saves[s].attempt
    /\ SubmitCount(saves[s].batch) = saves[s].attempt + 1
    /\ Len(batchWaits[saves[s].batch]) = saves[s].attempt

C5_BatchesIndependent ==
    [][ /\ \A i \in DOMAIN batches :
              status[i] = "Sent" =>
                  /\ status'[i] = "Sent"
                  /\ SubmitCount(i)' = SubmitCount(i)
        /\ pc' = "report" =>
              /\ index' = Len(batches')
              /\ \A i \in DOMAIN batches' :
                    /\ status'[i] \in {"Sent", "Failed"}
                    /\ ~dryRun' => SubmitCount(i)' >= 1
      ]_vars

\* The first batch failed, the second was sent, and the run reached its end.
C5_Witness ==
    /\ pc = "report"
    /\ Len(batches) >= 2
    /\ status[1] = "Failed"
    /\ status[2] = "Sent"
    /\ errors = 1

\* C6: at most one request is in flight; every request carries the batch at
\* its index; requests are issued in batch order without skipping a batch; and
\* when a request for a batch is issued or pending every earlier batch has
\* ended Sent or Failed.
C6_Sequential ==
    /\ inflight \in {0, 1}
    /\ \A k \in DOMAIN requests :
          /\ requests[k].batch \in DOMAIN batches
          /\ requests[k].entries = batches[requests[k].batch]
          /\ requests[k].batch - (IF k = 1 THEN 1 ELSE requests[k - 1].batch) \in {0, 1}
          /\ \A j \in 1..(requests[k].batch - 1) : Terminal(j)
    /\ inflight = 1 => pc = "await" /\ requests[Len(requests)].batch = Cur

\* The second batch's request is in flight after the first batch failed.
C6_Witness ==
    /\ inflight = 1
    /\ Len(batches) >= 2
    /\ Cur = 2
    /\ status[1] = "Failed"

\* C7 as stated: in a run that is not a dry run every request but the first
\* is issued at least 100 ms of sleep after the one before it.
C7_RequestsSpaced ==
    ~dryRun => \A k \in DOMAIN requests : k > 1 => requests[k].gap >= 100

\* C8: in a dry run no request is issued, no settling pause, inter-request
\* pause or backoff wait is taken, saveFailedBatch is never called and the
\* failure file keeps its content, every batch ends Sent, and at the end
\* batchesSent is the number of batches.
C8_DryRun ==
    dryRun =>
        /\ requests = <<>>
        /\ inflight = 0
        /\ settled = 0 /\ pauses = 0 /\ gap = 0
        /\ \A i \in DOMAIN batches : batchWaits[i] = <<>> /\ status[i] \in {"Pending", "Sent"}
        /\ saves = <<>> /\ errors = 0
        /\ failedFile \in InitialFiles
        /\ pc = "report" =>
              /\ batchesSent = Len(batches)
              /\ \A i \in DOMAIN batches : status[i] = "Sent"

\* A dry run over two batches reached its end.
C8_Witness ==
    /\ dryRun
    /\ pc = "report"
    /\ Len(batches) = 2
    /\ batchesSent = 2

(***************************************************************************)
(* Partitioning (under SpecBatch).                                         *)
(***************************************************************************)
\* C9: with N records and B = min(configured size, 10), B >= 1, the partition
\* has ceil(N / B) batches, batch i is the slice of records (i-1)*B+1 ..
\* min(i*B, N), every batch but the last has B entries, no batch has more
\* than 10, and the batches concatenated in order give the record list.
C9_Partition ==
    pc # "partition" =>
        LET N == Len(allEntries)
            B == IF batchSize < 10 THEN batchSize ELSE 10
        IN  B >= 1 =>
            /\ Len(batches) = (N + B - 1) \div B
            /\ \A i \in DOMAIN batches :
                  /\ batches[i] = [j \in 1..((IF i * B < N THEN i * B ELSE N) - (i - 1) * B)
                                      |-> allEntries[(i - 1) * B + j]]
                  /\ i < Len(batches) => Len(batches[i]) = B
                  /\ Len(batches[i]) >= 1
                  /\ Len(batches[i]) <= 10
            /\ Flatten(batches) = allEntries

\* 12 records with a configured size of 11: a batch of 10 and a batch of 2.
C9_Witness ==
    /\ pc # "partition"
    /\ Len(allEntries) = 12
    /\ batchSize = 11
    /\ Len(batches) = 2
    /\ Len(batches[1]) = 10
    /\ batches[2] = <<11, 12>>

(***************************************************************************)
(* Deduplication (under SpecDedup).                                        *)
(***************************************************************************)
\* positions of the records whose path carries hash h
WithHash(h) == {j \in DOMAIN allEntries : extractMediaHash(allEntries[j].path) = h}

\* C10: after deduplication of the whole list, among the records carrying a
\* given hash exactly one is 'ingest', namely the first in list order, and all
\* the others are 'reuse', whatever pages the records come from.
C10_OneFirstSeenPerHash ==
    pc = "enrich" =>
        \A i \in DOMAIN allEntries :
            LET h == extractMediaHash(allEntries[i].path)
            IN  h # <<>> =>
                /\ Cardinality({j \in WithHash(h) : allEntries[j].operation = "ingest"}) = 1
                /\ Cardinality({j \in WithHash(h) : allEntries[j].operation = "reuse"})
                      = Cardinality(WithHash(h)) - 1
                /\ allEntries[i].operation = "ingest" <=> (\A j \in WithHash(h) : i <= j)

\* Three records with hash a1, from two pages and under two paths: the first
\* is first-seen and the other two are reused.
C10_Witness ==
    /\ pc = "enrich"
    /\ Len(allEntries) = 3
    /\ allEntries[1].path = PathA1 /\ allEntries[1].operation = "ingest"
    /\ allEntries[2].path = PathXA1 /\ allEntries[2].operation = "reuse"
    /\ allEntries[3].path = PathA1 /\ allEntries[3].operation = "reuse"
    /\ allEntries[1].contentSourcePath # allEntries[2].contentSourcePath
    /\ seenHashes = {<<"a", "1">>}

\* C11: after deduplication every record whose path carries no hash is
\* 'ingest', however many records share its path; and a record is 'reuse' only
\* when an earlier record carries the same, extractable, hash, so no hashless
\* record makes another record 'reuse'; the hash set never holds the empty key
\* and the reuse count is the number of hashed records beyond the first of
\* each hash.
C11_NoHashAlwaysFirstSeen ==
    pc = "enrich" =>
        /\ \A i \in DOMAIN allEntries :
              extractMediaHash(allEntries[i].path) = <<>>
                  => allEntries[i].operation = "ingest"
        /\ \A j \in DOMAIN allEntries :
              allEntries[j].operation = "reuse" =>
                  /\ extractMediaHash(allEntries[j].path) # <<>>
                  /\ \E k \in 1..(j - 1) :
                        extractMediaHash(allEntries[k].path)
                           = extractMediaHash(allEntries[j].path)
        /\ <<>> \notin seenHashes
        /\ reuseCount = Cardinality({j \in DOMAIN allEntries :
                                       extractMediaHash(allEntries[j].path) # <<>>})
                           - Cardinality(seenHashes)

\* The hashless path "/img.png" twice, from the same page, around a hashed
\* record: all three are first-seen.
C11_Witness ==
    /\ pc = "enrich"
    /\ Len(allEntries) = 3
    /\ allEntries[1].path = PathImg /\ allEntries[1].operation = "ingest"
    /\ allEntries[2].path = PathA1 /\ allEntries[2].operation = "ingest"
    /\ allEntries[3].path = PathImg /\ allEntries[3].operation = "ingest"
    /\ allEntries[1].contentSourcePath = allEntries[3].contentSourcePath
    /\ reuseCount = 0

(***************************************************************************)
(* Deduplication as annotation (under SpecAnnotate).                       *)
(***************************************************************************)
\* C12: the deduplication step keeps the length and order of the list and
\* every field of every record but operation; afterwards the list is not
\* changed again (enrichment being skipped); once partitioned, the batches
\* concatenated in order are the list, so every record, reused or not, sits in
\* exactly one batch; and at the end of a run that is not a dry run every batch
\* was carried by at least one submission request (in a dry run every batch
\* was handed to sendMediaLogBatch, which issues no request at all).
C12_AnnotatesNeverSuppresses ==
    [][ /\ (pc = "dedup" /\ pc' = "enrich") =>
              /\ Len(allEntries') = Len(allEntries)
              /\ \A i \in DOMAIN allEntries :
                    /\ DOMAIN allEntries'[i] = DOMAIN allEntries[i]
                    /\ \A f \in DOMAIN allEntries[i] \ {"operation"} :
                          allEntries'[i][f] = allEntries[i][f]
                    /\ allEntries'[i].operation \in {"ingest", "reuse"}
        /\ pc # "dedup" => allEntries' = allEntries
        /\ pc' \notin {"dedup", "enrich", "partition"} =>
              Flatten(batches') = allEntries'
        /\ pc' = "report" =>
              \A i \in DOMAIN batches' :
                  IF dryRun'
                      THEN status'[i] = "Sent"
                      ELSE \E k \in DOMAIN requests' :
                              /\ requests'[k].batch = i
                              /\ requests'[k].entries = batches'[i]
      ]_vars

\* Three records with the same hash: the second and third are reused, the
\* third sits alone in the second batch, and a request carried it.
C12_Witness ==
    /\ pc = "report"
    /\ ~dryRun
    /\ Len(allEntries) = 3
    /\ allEntries[2].operation = "reuse"
    /\ allEntries[3].operation = "reuse"
    /\ Len(batches) = 2
    /\ \E k \in DOMAIN requests :
          requests[k].batch = 2 /\ requests[k].entries = <<allEntries[3]>>

(***************************************************************************)
(* Enrichment (under SpecEnrich).                                          *)
(***************************************************************************)
\* the pages in the index whose URL is the entry's sourcePath
IndexedPages(entry) ==
    {k \in DOMAIN userMap :
        "sourcePath" \in DOMAIN entry /\ entry.sourcePath = sourceUrl(site, k)}

\* C13: the map over the entries never raises (the run goes on to the
\* partition), keeps the list's length and order and every field of every
\* entry, and sets user by this rule: an entry whose sourcePath is the URL of a
\* page in the index gets that page's user, also when a fallback is given; any
\* other entry (page not in the index, sourcePath on another host suffix, or no
\* sourcePath) gets the fallback when one is given and no user otherwise.
C13_EnrichmentRule ==
    [][ pc = "logDone" =>
          /\ pc' = "partition"
          /\ Len(allEntries') = Len(allEntries)
          /\ \A i \in DOMAIN allEntries :
                /\ \A f \in DOMAIN allEntries[i] :
                      f \in DOMAIN allEntries'[i] /\ allEntries'[i][f] = allEntries[i][f]
                /\ DOMAIN allEntries'[i] \subseteq DOMAIN allEntries[i] \cup {"user"}
                /\ IF IndexedPages(allEntries[i]) # {}
                      THEN /\ "user" \in DOMAIN allEntries'[i]
                           /\ \A k \in IndexedPages(allEntries[i]) :
                                 allEntries'[i].user = userMap[k]
                      ELSE IF fallbackUser # ""
                      THEN /\ "user" \in DOMAIN allEntries'[i]
                           /\ allEntries'[i].user = fallbackUser
                      ELSE "user" \notin DOMAIN allEntries'[i]
      ]_vars

\* With fallback carol: the entry of page /a, which alice previewed, has user
\* alice, and the entry whose sourcePath is on another host suffix has carol.
C13_Witness ==
    /\ pc = "partition"
    /\ fallbackUser = "carol"
    /\ Len(allEntries) = 2
    /\ "sourcePath" \in DOMAIN allEntries[1]
    /\ allEntries[1].sourcePath = sourceUrl(site, PageA)
    /\ "user" \in DOMAIN allEntries[1] /\ allEntries[1].user = "alice"
    /\ "sourcePath" \in DOMAIN allEntries[2]
    /\ SitePath(allEntries[2].sourcePath) = <<>>
    /\ "user" \in DOMAIN allEntries[2] /\ allEntries[2].user = "carol"

(***************************************************************************)
(* The wired pipeline (under SpecWire).                                    *)
(***************************************************************************)
\* C14 as stated: when the index holds the user who last previewed the page
\* the entries were extracted from, every enriched entry carries that user,
\* whatever the fallback.
C14_PageUserDelivered ==
    [][ (pc = "logDone" /\ MapHas(userMap, pagePath)) =>
            \A i \in DOMAIN allEntries' :
                /\ "user" \in DOMAIN allEntries'[i]
                /\ allEntries'[i].user = userMap[pagePath]
      ]_vars

\* the ways the pagination loop ends on a failure
FailureEnds == {"forbidden", "notOk", "fetchRejected", "jsonRejected"}

\* the step reads a log page successfully
ReadsPage == pc = "logAwait" /\ (pc' = "logFetch" \/ logEnd' = "noNext")

\* the events of a page that count for path k: route 'preview', user present
PreviewsOf(page, k) ==
    {j \in DOMAIN page :
        page[j].route = "preview" /\ page[j].path = k /\ page[j].user # ""}

\* C15: reading a page never changes or removes an entry the index already
\* has (so across pages the earliest event wins); a path is added exactly when
\* the page has an event for it with route 'preview' and path and user
\* present, and it is mapped to the user of the first such event of the page;
\* events with another route or without path or user add nothing (no empty
\* key, no empty user); and no other step of the pagination changes the index.
C15_FirstPreviewWins ==
    [][ /\ ReadsPage =>
              /\ \A k \in DOMAIN userMap :
                    k \in DOMAIN userMap' /\ userMap'[k] = userMap[k]
              /\ \A k \in DOMAIN userMap' \ DOMAIN userMap :
                    /\ k # <<>>
                    /\ PreviewsOf(lastPage', k) # {}
                    /\ \A j \in PreviewsOf(lastPage', k) :
                          (\A r \in PreviewsOf(lastPage', k) : j <= r)
                              => userMap'[k] = lastPage'[j].user
              /\ \A j \in DOMAIN lastPage' :
                    (lastPage'[j].path # <<>> /\ PreviewsOf(lastPage', lastPage'[j].path) # {})
                        => lastPage'[j].path \in DOMAIN userMap'
        /\ (pc \in {"logFetch", "logAwait"} /\ ~ReadsPage) => userMap' = userMap
      ]_vars

\* The second page brought a preview of /a by bob and then a live event of /a
\* by carol: /a stays with alice from the first page.
C15_Witness ==
    /\ pc = "logDone"
    /\ Len(logRequests) = 2
    /\ userMap = MapSet(EmptyMap, PageA, "alice")
    /\ lastPage = << [route |-> "preview", path |-> PageA, user |-> "bob"],
                     [route |-> "live", path |-> PageA, user |-> "carol"] >>

\* C16: a log response that is not ok, a rejected log request and a body that
\* cannot be read all end the pagination at once with the index as it was
\* after the pages read before (no entry added, changed or removed), without
\* raising; a log request is only ever issued while the loop has not ended;
\* and from the end of the pagination the run goes on to the partition with a
\* list of the same length.
C16_PartialIndexOnFailure ==
    [][ /\ (pc = "logAwait" /\ ~ReadsPage) =>
              /\ logEnd' \in FailureEnds
              /\ pc' = "logDone"
              /\ userMap' = userMap
              /\ logRequests' = logRequests
        /\ Len(logRequests') > Len(logRequests) => pc = "logFetch" /\ logEnd = ""
        /\ pc = "logDone" => pc' = "partition" /\ Len(allEntries') = Len(allEntries)
      ]_vars

\* The second log request was answered 403: the loop ended with the index of
\* the first page.
C16_Witness ==
    /\ pc = "logDone"
    /\ logEnd = "forbidden"
    /\ Len(logRequests) = 2
    /\ userMap = MapSet(EmptyMap, PageA, "alice")
    /\ lastPage = << [route |-> "preview", path |-> PageA, user |-> "alice"] >>

(***************************************************************************)
(* Extraction (under SpecExtract).                                         *)
(***************************************************************************)
\* the page has been extracted
Extracted == pc \in {"dedup", "noMedia"}

\* the candidates in the stated processing order: inline images, then
\* reference-style images, then plain links of a video or document url
Resolutions == InlineCalls(markdown) \o RefCalls(markdown) \o LinkCalls(markdown)

\* the first resolution of the url of entry i
FirstResolution(i) ==
    CHOOSE k \in DOMAIN Resolutions :
        /\ Resolutions[k].path = allEntries[i].path
        /\ \A j \in 1..(k - 1) : Resolutions[j].path # allEntries[i].path

\* C17: every entry the extractor emits has a path with at least one
\* character, none of them whitespace at either end.
C17_PathNeverEmpty ==
    Extracted =>
        \A i \in DOMAIN allEntries :
            /\ allEntries[i].path # <<>>
            /\ Trim(allEntries[i].path) = allEntries[i].path

\* A reference-style image whose id is defined without url, at the end of the
\* document, next to a proper inline image: one entry.
C17_Witness ==
    /\ Extracted
    /\ markdown = FragRefImage \o FragInline \o FragDefEmpty
    /\ Len(allEntries) = 1
    /\ allEntries[1].path = UrlA

\* C18: no two entries of one extraction have the same path; the paths
\* emitted are exactly the urls resolved; the entries are in the order of the
\* first resolutions of their urls; and each carries the alt text of that
\* first resolution (trimmed, and absent when that is empty).
C18_OneEntryPerUrl ==
    Extracted =>
        /\ \A i, j \in DOMAIN allEntries :
              allEntries[i].path = allEntries[j].path => i = j
        /\ {allEntries[i].path : i \in DOMAIN allEntries}
              = {Resolutions[k].path : k \in DOMAIN Resolutions}
        /\ \A i, j \in DOMAIN allEntries :
              i < j => FirstResolution(i) < FirstResolution(j)
        /\ \A i \in DOMAIN allEntries :
              IF Trim(Resolutions[FirstResolution(i)].altText) # <<>>
                  THEN /\ "alt" \in DOMAIN allEntries[i]
                       /\ allEntries[i].alt = Trim(Resolutions[FirstResolution(i)].altText)
                  ELSE "alt" \notin DOMAIN allEntries[i]

\* /a.png resolved twice, first by the inline image with alt x (which stands
\* last in the document), then through the reference id with alt z: one entry,
\* with alt x.
C18_Witness ==
    /\ Extracted
    /\ markdown = FragRefImage \o FragDefA \o FragInline
    /\ Len(Resolutions) = 2
    /\ Resolutions[2].altText = <<"z">>
    /\ Len(allEntries) = 1
    /\ allEntries[1].path = UrlA /\ allEntries[1].alt = <<"x">>

\* the definitions, in document order, whose id equals id up to letter case
DefinitionsOf(id) ==
    {d \in DOMAIN ScanRefDefs(markdown, 1) :
        toLowerCase(ScanRefDefs(markdown, 1)[d].id) = toLowerCase(id)}

\* the last of them (a later definition of an id replaces an earlier one)
DefinitionOf(id) ==
    ScanRefDefs(markdown, 1)[CHOOSE d \in DefinitionsOf(id) :
                                 \A e \in DefinitionsOf(id) : e <= d]

\* the resolutions that come from the construct matched at position p
ResolvedAt(from, p) ==
    {k \in DOMAIN Resolutions : Resolutions[k].from = from /\ Resolutions[k].at = p}

\* C19: every inline image resolves to its url with the title as alt when it
\* has a title and the bracket text otherwise; every reference-style image
\* whose id has a definition, letter case ignored, resolves to the
\* definition's url with the definition's title as alt when it has one and the
\* bracket text otherwise, and one whose id has no definition resolves to
\* nothing; plain links resolve with no alt; and an entry has the alt field
\* only with a text that is not empty and is trimmed.
C19_AltResolution ==
    Extracted =>
        /\ \A k \in DOMAIN ScanInlineImages(markdown, 1) :
              LET m == ScanInlineImages(markdown, 1)[k]
              IN  \E c \in ResolvedAt("inline", m.at) :
                    /\ ResolvedAt("inline", m.at) = {c}
                    /\ Resolutions[c].path = m.url
                    /\ Resolutions[c].altText
                          = IF m.title # <<>> THEN m.title ELSE m.text
        /\ \A k \in DOMAIN ScanRefImages(markdown, 1) :
              LET m == ScanRefImages(markdown, 1)[k]
              IN  IF DefinitionsOf(m.id) = {}
                      THEN ResolvedAt("reference", m.at) = {}
                      ELSE \E c \in ResolvedAt("reference", m.at) :
                              /\ ResolvedAt("reference", m.at) = {c}
                              /\ Resolutions[c].path = DefinitionOf(m.id).url
                              /\ Resolutions[c].altText
                                    = IF DefinitionOf(m.id).title # <<>>
                                          THEN DefinitionOf(m.id).title
                                          ELSE m.text
        /\ \A c \in DOMAIN Resolutions :
              Resolutions[c].from = "link" => Resolutions[c].altText = <<>>
        /\ \A i \in DOMAIN allEntries :
              "alt" \in DOMAIN allEntries[i] =>
                  /\ allEntries[i].alt # <<>>
                  /\ Trim(allEntries[i].alt) = allEntries[i].alt
                  /\ allEntries[i].alt = Trim(Resolutions[FirstResolution(i)].altText)

\* ![y](/b.png "T"), then [id]: /a.png and ![z][ID]: an entry for /b.png with
\* alt T (the title, not y) and an entry for /a.png with alt z.
C19_Witness ==
    /\ Extracted
    /\ markdown = FragInlineTitle \o FragDefA \o FragRefImage
    /\ Len(allEntries) = 2
    /\ allEntries[1].path = UrlB /\ allEntries[1].alt = <<"T">>
    /\ allEntries[2].path = UrlA /\ allEntries[2].alt = <<"z">>

\* String.prototype.endsWith, letter case ignored
EndsWith(url, ext) ==
    /\ Len(url) >= Len(ext)
    /\ SubSeq(toLowerCase(url), Len(url) - Len(ext) + 1, Len(url)) = ext

\* the entries that come from the plain-link step: their url was resolved by
\* no image
FromLinkStep ==
    {i \in DOMAIN allEntries : Resolutions[FirstResolution(i)].from = "link"}

\* C20 as stated: an entry comes from the plain-link step only for a url of
\* the video or document families, and never for a url that carries an image
\* extension.
C20_PlainLinksNeverImages ==
    Extracted =>
        \A i \in FromLinkStep :
            /\ \E ext \in VIDEO_EXTENSIONS \cup DOC_EXTENSIONS :
                  Includes(toLowerCase(allEntries[i].path), ext)
            /\ \A ext \in IMAGE_EXTENSIONS : ~EndsWith(allEntries[i].path, ext)

(***************************************************************************)
(* The extractor's records (under SpecSource).                             *)
(***************************************************************************)
ExampleSourceUrl ==
    <<"h", "t", "t", "p", "s", ":", "/", "/", "m", "a", "i", "n", "-", "-",
      "r", "-", "-", "o", ".", "a", "e", "m", ".", "p", "a", "g", "e", "/",
      "p", "r", "o", "d", "u", "c", "t", "s", "/", "x">>

Extracts(i) == FetchDone(i, TRUE)

\* C22: extraction is deterministic and free of side effects: a call returns
\* what a call with the same arguments returns in a fresh process, and what
\* every earlier call with the same arguments returned, whatever calls were
\* made before it; it leaves its arguments and the expressions' state as
\* they were.
C22_Deterministic ==
    [][\A i \in DOMAIN resources :
          Extracts(i) =>
            /\ handled'[i].records =
                   extractMediaReferences(ContentOf(PathOf(resources[i])),
                                          PathOf(resources[i]), site)
            /\ \A j \in DOMAIN handled :
                   (resources[j] = resources[i] /\ handled[j].extractions > 0)
                       => handled'[i].records = handled[j].records
            /\ resources' = resources
            /\ site' = site
            /\ lastIndex' = lastIndex
      ]_vars

\* The page with the reference-style image was extracted twice, with the
\* extraction of another page in between or before.
C22_Witness ==
    /\ Len(resources) = 3
    /\ resources[1] = resources[3]
    /\ PathOf(resources[1]) = PathPageB
    /\ PathOf(resources[2]) = PathPageA
    /\ \A i \in 1..3 : handled # <<>> /\ handled[i].extractions = 1
    /\ handled[1].records # <<>>
    /\ handled[1].records = handled[3].records


\* what resource j contributes when it is handled without a failure: nothing
\* when it is not processable, its own entry when it is a media file, the
\* entries of its markdown when it is a page
OwnRecords(j) ==
    IF ~shouldProcessResource(resources[j]) THEN <<>>
    ELSE IF isMediaFile(PathOf(resources[j]))
        THEN <<standaloneEntry(site, PathOf(resources[j]))>>
    ELSE extractMediaReferences(ContentOf(PathOf(resources[j])),
                                PathOf(resources[j]), site)

RECURSIVE TotalRecords(_)
TotalRecords(j) == IF j = 0 THEN 0 ELSE Len(handled[j].records) + TotalRecords(j - 1)

\* records appears in list as one run of consecutive elements
RunOf(records, list) ==
    \E p \in 1..Len(list) + 1 :
        /\ p + Len(records) - 1 <= Len(list)
        /\ SubSeq(list, p, p + Len(records) - 1) = records

\* C23: the failure of one resource's content fetch is isolated: it adds
\* exactly one to the error counter, contributes no record, leaves the run
\* going and the other resources' tasks and records as they are; when the
\* pool has drained, every resource that did not fail has contributed
\* exactly what it contributes on its own, and the errors counted are the
\* resources that failed.
C23_FailureIsolated ==
    [][/\ \A i \in DOMAIN resources :
            FetchDone(i, FALSE) =>
              /\ errors' = errors + 1
              /\ allEntries' = allEntries
              /\ handled'[i].records = <<>>
              /\ pc' = "drain" /\ exitCode' = NoExit
              /\ \A j \in DOMAIN resources \ {i} :
                    handled'[j] = handled[j] /\ task'[j] = task[j]
       /\ PoolDrained =>
              /\ \A j \in DOMAIN resources :
                    /\ handled[j].records =
                         IF handled[j].failed THEN <<>> ELSE OwnRecords(j)
                    /\ RunOf(handled[j].records, allEntries)
              /\ Len(allEntries) = TotalRecords(Len(resources))
              /\ errors = Cardinality({j \in DOMAIN resources : handled[j].failed})
              /\ pc' \in {"dedup", "noMedia"}
      ]_vars

\* The pool has drained after one page failed and after another page and a
\* media file contributed their records.
C23_Witness ==
    /\ pc = "dedup"
    /\ errors = 1
    /\ Len(resources) = 3
    /\ \E i, j, k \in DOMAIN resources :
          /\ handled[i].failed
          /\ handled[j].extractions = 1 /\ handled[j].records # <<>>
          /\ handled[k].synthesized = 1
    /\ Len(allEntries) = 2


\* the path ends with one of the media extensions / one of the ignored ones
MediaPath(j) == \E ext \in MEDIA_EXTENSIONS : EndsWith(PathOf(resources[j]), ext)
IgnoredPath(j) == \E ext \in IGNORE_EXTENSIONS : EndsWith(PathOf(resources[j]), ext)

PoolStarted == pc \in {"drain", "dedup", "noMedia"}
PoolOver == pc \in {"dedup", "noMedia"}

BadCredential ==
    \/ ~token.present
    \/ ~token.decodes
    \/ token.exp # 0 /\ token.exp < Now

\* nothing of the delivery phase has happened
NothingDelivered ==
    /\ requests = <<>>
    /\ inflight = 0
    /\ saves = <<>>
    /\ failedFile = AbsentFile
    /\ batchesSent = 0

\* C24: a missing, undecodable or expired credential ends the run with exit
\* code 1 before any remote request; a failure of the job creation, of a poll
\* or of the result fetch ends it with exit code 1; a run that has ended this
\* way has issued no submission request and written no failure record, and
\* takes no further step.
C24_FatalBeforeDelivery ==
    [][ /\ pc # "exit"
        /\ (CheckToken /\ BadCredential)
              => pc' = "exit" /\ exitCode' = 1 /\ remote' = {}
        /\ (CreateJob(FALSE) \/ Poll("failed") \/ Details(FALSE))
              => pc' = "exit" /\ exitCode' = 1
        /\ pc' = "exit" => exitCode' = 1 /\ NothingDelivered' /\ ~report'.printed
      ]_vars

\* A run stopped by its credential, and a run stopped by a discovery failure.
C24_Witness ==
    /\ pc = "exit" /\ exitCode = 1
    /\ \/ BadCredential /\ token.present /\ token.decodes
       \/ ~BadCredential /\ "poll" \in remote /\ "details" \notin remote


\* the run has returned from runIngest without a fatal error
EndedNormally == exitCode = 0 /\ pc \in {"done", "noMedia"}

\* C25: a run that ends without a fatal error has printed the summary
\* report, also when no media record was found.
C25_ReportAlways == EndedNormally => report.printed


\* the file after call s holds the list it held before, plus the batch's record
Appended(s) ==
    /\ saves[s].after.kind = "list"
    /\ saves[s].after.recs
          = saves[s].before.recs
              \o << [error |-> saves[s].err, entries |-> batches[saves[s].batch]] >>

\* the calls of saveFailedBatch follow each other on the same file
SavesChained ==
    /\ \A s \in DOMAIN saves : s > 1 => saves[s].before = saves[s - 1].after
    /\ saves # <<>> => failedFile = saves[Len(saves)].after

InFlight == {i \in DOMAIN task : task[i] \in {"fetching", "settling"}}

\* the resources that get a task
Processable == {j \in DOMAIN resources :
                   PathOf(resources[j]) # <<>> /\ ~IgnoredPath(j)}

\* C28: at no moment are more than `concurrency` tasks in flight, and with a
\* limit of at least 1 the task of every processable resource is eventually
\* started and ends, after which the pool is left.
C28_BoundedAndComplete ==
    /\ [](PoolStarted => Cardinality(InFlight) <= concurrency)
    /\ (pc = "pool" /\ concurrency >= 1)
          ~> (PoolOver /\ \A j \in Processable :
                              task[j] = "done" /\ ~(handled[j] = NotHandled))

\* The limit binds: two tasks are in flight under a limit of 2 while a third
\* waits in the queue.
C28_Witness ==
    /\ pc = "drain"
    /\ concurrency = 2
    /\ Cardinality(InFlight) = 2
    /\ queue # <<>>


\* a record synthesized for a standalone asset carries no source path
Standalone(e) == "contentSourcePath" \notin DOMAIN e /\ "sourcePath" \notin DOMAIN e

\* C29: in the list handed to the Deduplicator every standalone-asset record
\* precedes every record extracted from a page.
C29_StandaloneFirst ==
    pc = "dedup" =>
        \A a, b \in DOMAIN allEntries :
            (Standalone(allEntries[b]) /\ ~Standalone(allEntries[a])) => b < a


\* the delivery loop has ended
DeliveryOver == pc = "report"

\* C30: when every request is answered or rejects and every step is taken,
\* the delivery loop ends, whatever the responses; it ends only with every
\* batch Sent or Failed; and a batch that is Sent or Failed stays so.
C30_DeliveryTerminates ==
    /\ <>DeliveryOver
    /\ [](DeliveryOver => batches # <<>> /\ \A i \in DOMAIN batches : Terminal(i))
    /\ [][\A i \in DOMAIN batches : Terminal(i) => status'[i] = status[i]]_vars

\* The loop has ended over a batch that was rate-limited on all 4 attempts
\* and a batch that was sent.
C30_Witness ==
    /\ DeliveryOver
    /\ \E i, j \in DOMAIN batches :
          /\ status[i] = "Failed" /\ rateLimits[i] = 4
          /\ status[j] = "Sent"


(***************************************************************************)
(* Pauses, phases and accounting of a run.                                 *)
(***************************************************************************)
\* the batches after which the inter-request pause is due
PauseDue == {i \in DOMAIN batches :
                status[i] = "Sent" /\ i < Len(batches) /\ ~dryRun}

PoolComplete ==
    /\ pc \notin {"pool", "drain"}
    /\ queue = <<>> /\ settling = <<>> /\ pendingCount = 0
    /\ \A j \in DOMAIN resources :
          IF j \in Processable
              THEN task[j] = "done" /\ handled[j].fetches + handled[j].synthesized = 1
              ELSE task[j] = "none"

\* nothing of the deduplication, the enrichment or the delivery has happened
NothingAfterPool ==
    /\ seenHashes = {} /\ ingestCount = 0 /\ reuseCount = 0
    /\ logRequests = <<>> /\ userMap = EmptyMap /\ logEnd = ""
    /\ batches = <<>> /\ settled = 0 /\ requests = <<>>

\* C32: while a task of the pool is queued or in flight nothing of the
\* deduplication, the enrichment, the settling pause or the delivery has
\* happened; the settling pause is taken at most once, never in a dry run,
\* only with the pool complete and before any submission request, and every
\* submission request of a run that is not a dry run comes after it (the
\* first one 2000 ms of sleep after the pool).
C32_PhasesAfterBarrier ==
    /\ [](IF pc \in {"pool", "drain"} THEN NothingAfterPool ELSE PoolComplete)
    /\ [](settled <= 1 /\ (dryRun => settled = 0))
    /\ []((~dryRun /\ requests # <<>>) => (settled = 1 /\ requests[1].gap = 2000))
    /\ [][settled' # settled =>
              /\ PoolComplete /\ ~dryRun
              /\ requests = <<>> /\ batchesSent = 0 /\ errors' = errors
              /\ seenHashes' = seenHashes /\ logRequests' = logRequests]_vars

\* Two pages were fetched, the records deduplicated and enriched (the log
\* was read), the settling pause taken once, and the second of two batches
\* submitted.
C32_Witness ==
    /\ ~dryRun /\ ~skipUserEnrichment
    /\ PoolComplete
    /\ Cardinality({j \in DOMAIN resources : handled[j].fetches = 1}) = 2
    /\ seenHashes # {}
    /\ settled = 1
    /\ Len(batches) = 2
    /\ requests # <<>> /\ requests[Len(requests)].batch = 2

\* the resources whose task pushed records
Pushers == {i \in DOMAIN handled : handled[i].records # <<>>}

RECURSIVE RunsOf(_, _)
\* list is the records of the tasks of S, one task after the other in some
\* order, each task's records contiguous and in the order it produced them
RunsOf(list, S) ==
    IF S = {} THEN list = <<>>
    ELSE \E i \in S :
            /\ Len(handled[i].records) <= Len(list)
            /\ SubSeq(list, 1, Len(handled[i].records)) = handled[i].records
            /\ RunsOf(SubSeq(list, Len(handled[i].records) + 1, Len(list)),
                      S \ {i})

\* what the task of resource i produces, whatever ran before it
RecordsOf(i) ==
    IF isMediaFile(PathOf(resources[i]))
        THEN <<standaloneEntry(site, PathOf(resources[i]))>>
        ELSE extractWith(ContentOf(PathOf(resources[i])), PathOf(resources[i]),
                         site, FreshIndex).entries

\* C33: under every interleaving of the pool's tasks the accumulated list is
\* the records of the tasks that did not fail, none lost and none twice, the
\* records of one page contiguous and in that page's extraction order; a
\* failed task contributes nothing, what a task contributes does not depend
\* on the interleaving, and once the pool is over every task that did not
\* fail has contributed.
C33_PermutationOfRuns ==
    PoolStarted =>
        /\ RunsOf(allEntries, Pushers)
        /\ \A i \in DOMAIN handled :
              /\ handled[i].failed => handled[i].records = <<>>
              /\ handled[i].records # <<>> => handled[i].records = RecordsOf(i)
              /\ (PoolOver /\ i \in Processable /\ ~handled[i].failed)
                    => handled[i].records = RecordsOf(i)

\* two pages were fetched at once and the page discovered second answered
\* first: its records come first, the two records of the other page follow
\* together
C33_Witness ==
    /\ PoolOver
    /\ Len(resources) = 2
    /\ Len(handled[1].records) = 2
    /\ Len(handled[2].records) = 1
    /\ allEntries = handled[2].records \o handled[1].records

\* what is left of the loop of buildPreviewUserMap: the pages the log can
\* still serve, twice, and one more while a response is outstanding
LogMeasure ==
    2 * (MaxLogPages - Len(logRequests)) + (IF pc = "logAwait" THEN 1 ELSE 0)

\* C34: the pagination issues its requests one at a time (a request only
\* when none is outstanding, and the loop then waits for its response), the
\* first to the 30-day, limit-1000 URL and every later one to the next link
\* of the response read before it; a response without a next link and a
\* response that is not ok end the loop, after which nothing is requested;
\* every response read has exactly one request; and every turn of the loop
\* uses up one page of the finite chain, so the loop ends.
C34_OneRequestPerPage ==
    /\ [](pc \in {"logFetch", "logAwait", "logDone"} =>
            /\ logRequests # <<>> => logRequests[1] = "?since=30d&limit=1000"
            /\ \A k \in 2..Len(logRequests) : logRequests[k] \in NextLinks
            /\ pc = "logAwait" => logRequests[Len(logRequests)] = logUrl
            /\ pc = "logFetch" => logEnd = ""
            /\ pc = "logDone" => logEnd # "" /\ logRequests # <<>>
            /\ LogMeasure >= 0)
    /\ [][ /\ logRequests' # logRequests /\ pc' # "partition" =>
                 /\ pc = "logFetch" /\ pc' = "logAwait"
                 /\ logRequests' = Append(logRequests, logUrl)
                 /\ logUrl' = logUrl
           /\ pc = "logAwait" =>
                 /\ logRequests' = logRequests
                 /\ \/ pc' = "logFetch" /\ logUrl' \in NextLinks /\ logEnd' = ""
                    \/ pc' = "logDone" /\ logUrl' = logUrl
                                       /\ logEnd' \in FailureEnds \cup {"noNext"}
           /\ (pc \in {"logFetch", "logAwait"} /\ pc' \in {"logFetch", "logAwait"})
                 => LogMeasure' < LogMeasure
           /\ pc = "logDone" => pc' = "partition"
         ]_vars

\* two pages were read: the second request went to the link of the first
\* page, and the second page had no link
C34_Witness ==
    /\ pc = "logDone"
    /\ logEnd = "noNext"
    /\ logRequests = <<FirstLogUrl, "next-2">>
    /\ lastPage # <<>>

\* the batches that ended Failed, and the resources whose task threw
FailedBatches == {i \in DOMAIN status : status[i] = "Failed"}
FailedResources == {j \in DOMAIN handled : handled[j].failed}

\* the batches the delivery loop is done with
Processed == {i \in DOMAIN status : Terminal(i)}

\* C35: at every point of the delivery loop batchesSent plus the number of
\* batches that ended Failed is the number of batches processed so far (the
\* loop index between two batches, every batch at the end); the errors
\* counter is the number of resources whose task failed plus the number of
\* failed batches; and a batch has one saveFailedBatch call when it ended
\* Failed and none otherwise.
C35_Accounting ==
    /\ batchesSent + Cardinality(FailedBatches) = Cardinality(Processed)
    /\ batchesSent = Cardinality({i \in DOMAIN status : status[i] = "Sent"})
    /\ Processed = 1..Cardinality(Processed)
    /\ pc = "loop" => Cardinality(Processed) = index
    /\ pc \in {"report", "done"} => Cardinality(Processed) = Len(batches)
    /\ errors = Cardinality(FailedResources) + Cardinality(FailedBatches)
    /\ \A i \in DOMAIN status :
          Cardinality(SavesOf(i)) = IF status[i] = "Failed" THEN 1 ELSE 0
    /\ \A s \in DOMAIN saves : saves[s].batch \in FailedBatches

\* one page failed to fetch and the batch of the other page failed: two
\* errors, nothing sent, one call of saveFailedBatch
C35_Witness ==
    /\ pc = "report"
    /\ Cardinality(FailedResources) = 1
    /\ status = <<"Failed">>
    /\ batchesSent = 0
    /\ errors = 2
    /\ Len(saves) = 1

\* C36: the partition ends and yields only non-empty batches for every text
\* given to --batch-size: no batch pushed is empty, and the loop takes at
\* most one turn per entry (every turn takes at least one entry), so it
\* returns and the delivery gets at least one batch.
C36_PartitionEndsNonEmpty ==
    pc \in {"batching", "settle"} =>
        /\ \A k \in DOMAIN batches : batches[k] # <<>>
        /\ Len(batches) <= Len(allEntries)
        /\ pc = "settle" => Flatten(batches) = allEntries

\* C37: the site-relative path the enricher's expression takes from the
\* source URL the extractor builds for a page (a path that begins with '/',
\* as the discovery reports it) is the path of that page, for every site
\* context: from the URL built for the page, and from the source URL of
\* every record the extractor returned for it.
C37_RoundTrip ==
    /\ pagePath # <<>> /\ Head(pagePath) = "/"
    /\ SitePath(sourceUrl(site, pagePath)) = pagePath
    /\ Extracted =>
          \A i \in DOMAIN allEntries :
              SitePath(allEntries[i].contentSourcePath) = pagePath

\* a page whose own path repeats the host suffix was extracted for a site
\* other than the default one, and it has records
C37_Witness ==
    /\ Extracted
    /\ allEntries # <<>>
    /\ pagePath = PageNested
    /\ site.org = <<"a", "c", "m", "e">>
    /\ SitePath(allEntries[1].contentSourcePath) = PageNested

\* the catch block of the delivery loop, where saveFailedBatch is called,
\* ends without raising: the loop goes on with the next batch and the process
\* does not exit
SaveReturns ==
    [][pc = "catch" =>
          /\ pc' = "loop" /\ index' = index + 1
          /\ exitCode' = exitCode
          /\ Len(saves') = Len(saves) + 1
          /\ errors' = errors + 1]_vars

\* call s found no file and its write succeeded: the file holds the one record
StartsEmpty(s) ==
    (saves[s].before.kind = "absent" /\ saves[s].io = "ok") =>
        saves[s].after
            = ListFile(<< [error |-> saves[s].err,
                           entries |-> batches[saves[s].batch]] >>)

TerminalStates == {"completed", "stopped"}

\* pollJobStatus has returned to runIngest
PollingReturned == pc \notin {"start", "createJob", "poll", "exit"}

\* C39: polling returns only after a poll that observed completed or stopped,
\* and every poll before that one observed a job that was not terminal; a
\* poll that observed a job not yet terminal is followed by another poll (the
\* run stays in pollJobStatus, however many polls there were); a poll that
\* observed a terminal state returns at once, and one whose response was not
\* ok ends the run; and the result list is requested only after polling
\* returned.
C39_PollsUntilTerminal ==
    /\ [](/\ \A k \in 1..(Len(polls) - 1) : polls[k] = "running"
          /\ PollingReturned =>
                polls # <<>> /\ polls[Len(polls)] \in TerminalStates
          /\ "details" \in remote =>
                polls # <<>> /\ polls[Len(polls)] \in TerminalStates
          /\ (pc = "poll" /\ polls # <<>>) => polls[Len(polls)] = "running")
    /\ [][ /\ polls' # polls =>
                 /\ pc = "poll" /\ Len(polls') = Len(polls) + 1
                 /\ "details" \notin remote'
                 /\ polls'[Len(polls')] = "running" => pc' = "poll"
                 /\ polls'[Len(polls')] \in TerminalStates => pc' = "details"
                 /\ polls'[Len(polls')] = "failed" => pc' = "exit" /\ exitCode' = 1
           /\ (pc = "poll" /\ pc' # "poll") => polls' # polls
         ]_vars

\* the job was found running twice and then stopped; the result list was
\* fetched after that
C39_Witness ==
    /\ polls = <<"running", "running", "stopped">>
    /\ "details" \in remote
    /\ pc = "pool"

====
